---- MODULE Spec2Model ----
(***************************************************************************)
(* Itinerary scheduling and route optimisation of skrudwns/castone_3.      *)
(*                                                                         *)
(* Texts are sequences of tokens: a place name is a sequence of words, a   *)
(* category or an address part is a sequence of syllables, so that the     *)
(* substring tests and the suffix stripping of the code are computed and   *)
(* not assumed.  Times are seconds counted from midnight of the base date. *)
(* Each component has its own specification; the variables of the other    *)
(* components keep their initial value in it.                              *)
(***************************************************************************)
EXTENDS Integers, Sequences, FiniteSets, TLC

VARIABLES
    default_start_time, \* SmartScheduler.default_start_time, <<h, m>>
    current_time,       \* SmartScheduler.current_time, seconds from base-date midnight
    routes,             \* the answers of the route lookup, by (from, to) api name
    places,             \* argument of the last plan_day call
    timeline,           \* outcome of the last plan_day call: the timeline returned, or raised
    opt,                \* the optimize_and_get_routes call: its arguments, locals and result
    flt,                \* the _get_relevant_documents call: its arguments, locals and result
    rte,                \* the get_detailed_route call: its arguments, locals and result
    geoc,               \* the get_coordinates call: its arguments, provider calls and result
    plan,               \* the plan_itinerary_timeline call: its argument, locals and result
    reg,                \* the parse_regions_from_query call: its arguments, locals and result
    sel,                \* the find_and_select_best_place call: its arguments, locals and result
    graph               \* a run of the agent graph: its AgentState and the node it is at

schedVars == <<default_start_time, current_time, routes, places, timeline>>
vars == <<default_start_time, current_time, routes, places, timeline, opt, flt, rte, geoc, plan, reg,
          sel, graph>>

----------------------------------------------------------------------------
(* Bounds of the model *)

MaxPlaces == 4      \* longest venue list handed to plan_day
MaxDay == 2         \* largest day number of a venue
MaxOptPlaces == 3   \* longest place list handed to optimize_and_get_routes
MaxDocs == 2        \* most documents the vector search returns

----------------------------------------------------------------------------
(* Generic text helpers *)

\* Python's `sub in s` on token sequences
Contains(sub, s) ==
    \E i \in 0..(Len(s) - Len(sub)) : SubSeq(s, i + 1, i + Len(sub)) = sub

Min(S) == CHOOSE x \in S : \A y \in S : x <= y

\* t occurs in part at offset o, syllable by syllable
OccursAt(t, part, o) ==
    /\ o + Len(t) <= Len(part)
    /\ \A c \in 1..Len(t) : part[o + c] = t[c]

Occurs(t, part) == \E o \in 0..Len(part) : OccursAt(t, part, o)

----------------------------------------------------------------------------
(* smart_scheduler.py *)

DefaultTravelSeconds == 1800
DefaultStayMinutes == 90
CafeNameMinutes == 60
DiningNameMinutes == 90

\* get_detailed_route returned None (found is FALSE) or a dict with duration_value
NoRoute == [found |-> FALSE, duration_value |-> 0]

\* category keywords, as syllables
Sikdang == <<"sik", "dang">>
Kape == <<"ka", "pe">>
Gwangwangji == <<"gwan", "gwang", "ji">>
Sanchaekro == <<"san", "chaek", "ro">>
Themepark == <<"te", "ma", "pa", "keu">>
Sukso == <<"suk", "so">>

\* '장소', the category of an activity whose venue has no 'type'
Jangso == <<"jang", "so">>

\* the dict in insertion order, which is the order the loop tests the keys
DEFAULT_DURATIONS ==
    << <<Sikdang, 90>>, <<Kape, 60>>, <<Gwangwangji, 120>>,
       <<Sanchaekro, 60>>, <<Themepark, 180>>, <<Sukso, 0>> >>

\* words a name may start with before a colon, and the connectives that cut it
MealPrefixes == {"jeomsim", "jeonyeok", "achim", "ojeon", "ohu", "sukso", "chulbal", "dochak"}
Connectives == {"eseo", "mit"}

\* re.sub of the leading "<meal> :" and of the first " <connective> ..." tail
extract_place_name_for_api(raw_name) ==
    LET cleaned == IF Len(raw_name) >= 2 /\ raw_name[1] \in MealPrefixes /\ raw_name[2] = ":"
                   THEN SubSeq(raw_name, 3, Len(raw_name))
                   ELSE raw_name
        cuts == {i \in 2..(Len(cleaned) - 1) : cleaned[i] \in Connectives}
    IN  IF cuts = {} THEN cleaned ELSE SubSeq(cleaned, 1, Min(cuts) - 1)

\* the name is not looked at: 90 minutes for every category outside the table
_estimate_duration_TableOnly(place_info) ==
    LET place_type == IF "type" \in DOMAIN place_info THEN place_info.type ELSE Gwangwangji
        hits == {k \in 1..Len(DEFAULT_DURATIONS) : Contains(DEFAULT_DURATIONS[k][1], place_type)}
    IN  IF hits # {} THEN DEFAULT_DURATIONS[Min(hits)][2] ELSE DefaultStayMinutes

\* SmartScheduler._estimate_duration.  place_info is a dict: a record with
\* the keys it has.  Line 35 is place_info.get('type', '관광지') and line 36
\* place_info.get('name', ''): a dict without 'type' counts as 관광지, one
\* without 'name' has the empty name.
_estimate_duration(place_info) ==
    LET place_type == IF "type" \in DOMAIN place_info THEN place_info.type ELSE Gwangwangji
        place_name == IF "name" \in DOMAIN place_info THEN place_info.name ELSE <<>>
        hits == {k \in 1..Len(DEFAULT_DURATIONS) : Contains(DEFAULT_DURATIONS[k][1], place_type)}
    IN  IF hits # {} THEN DEFAULT_DURATIONS[Min(hits)][2]
        ELSE IF Contains(Kape, place_name) THEN CafeNameMinutes
        ELSE IF Contains(Sikdang, place_name) THEN DiningNameMinutes
        ELSE DefaultStayMinutes

\* datetime.strftime("%H:%M"): hour and minute of the day, seconds dropped
strftime(t) ==
    LET minuteOfDay == (t \div 60) % 1440
    IN  <<minuteOfDay \div 60, minuteOfDay % 60>>

\* datetime.time(h, m) of the constructor; ValueError falls back to 10:00
ParseStartTime(start_time_str) ==
    IF start_time_str[1] \in 0..23 /\ start_time_str[2] \in 0..59
    THEN start_time_str
    ELSE <<10, 0>>

\* datetime.combine(base_date + (day - 1) days, time), in seconds
Combine(day, tm) == (day - 1) * 86400 + tm[1] * 3600 + tm[2] * 60

\* datetime.time() of a datetime, as <<h, m>> (the scheduler never stores seconds)
TimeOf(t) == strftime(t)

\* no reset: every day goes on from the time of day the scheduler holds
DayStart_NoReset(ordered_places, cur) ==
    Combine(IF "day" \in DOMAIN ordered_places[1] THEN ordered_places[1].day ELSE 1,
            TimeOf(cur))

\* lines 52-69: the cursor plan_day starts from.  Line 54 is
\* ordered_places[0].get('day', 1): a first venue without 'day' is of day 1
DayStart(ordered_places, cur) ==
    LET current_day_num ==
            IF "day" \in DOMAIN ordered_places[1] THEN ordered_places[1].day ELSE 1
    IN  IF current_day_num = 1
        THEN Combine(current_day_num, TimeOf(cur))
        ELSE Combine(current_day_num, <<10, 0>>)

\* lines 85-92: seconds of the leg, from the awaited route result
TravelSeconds(route_result) ==
    IF ~route_result.found THEN DefaultTravelSeconds ELSE route_result.duration_value

\* lines 100-118: the move item of a leg that starts at cursor_time
MoveItem(prev_place, current_place, cursor_time, travel_seconds) ==
    [type |-> "move",
     from |-> prev_place.name,
     to |-> current_place.name,
     start |-> strftime(cursor_time),
     end |-> strftime(cursor_time + travel_seconds),
     duration_min |-> travel_seconds \div 60]

\* lines 120-135: the activity item of a venue that starts at cursor_time.
\* Line 129 is current_place.get('type', '장소')
ActivityItem(current_place, cursor_time, stay_minutes) ==
    [type |-> "activity",
     name |-> current_place.name,
     category |-> IF "type" \in DOMAIN current_place THEN current_place.type ELSE Jangso,
     start |-> strftime(cursor_time),
     end |-> strftime(cursor_time + stay_minutes * 60),
     duration_minutes |-> stay_minutes]

\* the outcome of a call: the list it returned, or the exception that left it
Returned(items) == [raised |-> FALSE, items |-> items]
Raised == [raised |-> TRUE, items |-> <<>>]

\* line 81 awaits what get_detailed_route returned.  Line 7 imports it from
\* tools.py, where it is a plain function (line 518) that returns a dict or
\* None (route_result.found is FALSE): neither can be awaited, the await
\* raises TypeError
Awaitable(route_result) == FALSE

\* lines 71-135: the loop body from venue i on, with the cursor it has
\* reached.  The await of line 81 is outside any try: its TypeError leaves
\* plan_day, and the lines 85-118 after it are never reached.  Lines 77, 78
\* and 128 read ['name']: a venue without the key raises KeyError, at line
\* 128 after its stay was estimated when it is the first of the list.
RECURSIVE PlanLoop(_, _, _, _)
PlanLoop(ordered_places, i, cursor_time, rt) ==
    IF i > Len(ordered_places) THEN Returned(<<>>)
    ELSE
        LET current_place == ordered_places[i]
            route_result ==
                rt[<<extract_place_name_for_api(ordered_places[IF i > 1 THEN i - 1 ELSE i].name),
                     extract_place_name_for_api(current_place.name)>>]
            travel_seconds == IF i > 1 THEN TravelSeconds(route_result) ELSE 0
            move == IF i > 1
                    THEN <<MoveItem(ordered_places[i - 1], current_place, cursor_time, travel_seconds)>>
                    ELSE <<>>
            after_move == cursor_time + travel_seconds
            stay_minutes == _estimate_duration(current_place)
            rest == PlanLoop(ordered_places, i + 1, after_move + stay_minutes * 60, rt)
        IN  IF "name" \notin DOMAIN current_place THEN Raised
            ELSE IF i > 1 /\ ~Awaitable(route_result) THEN Raised
            ELSE IF rest.raised THEN Raised
            ELSE Returned(move \o <<ActivityItem(current_place, after_move, stay_minutes)>>
                               \o rest.items)

\* SmartScheduler.plan_day: the timeline it returns, or the exception raised
plan_day(ordered_places, cur, rt) ==
    IF ordered_places = <<>> THEN Returned(<<>>)
    ELSE PlanLoop(ordered_places, 1, DayStart(ordered_places, cur), rt)

----------------------------------------------------------------------------
(* tools.py: plan_itinerary_timeline *)

\* an item of the itinerary is a dict; its keys are the fields of the record.
\* The type of an item is a text: a category in syllables, or the one word
\* "activity" or "move" of an item that a timeline held.
TypeActivity == <<"activity">>
TypeMove == <<"move">>

\* '이름 미상', the name of an item without any key that names it
NameUnknown == <<"i", "reum", "mi", "sang">>

\* item.get('day', 1)
DayOf(item) == IF "day" \in DOMAIN item THEN item.day ELSE 1

\* sorted(list(S))
RECURSIVE Sorted(_)
Sorted(S) == IF S = {} THEN <<>> ELSE <<Min(S)>> \o Sorted(S \ {Min(S)})

\* line 719: the day numbers of the itinerary, each once, rising
Days(itinerary) == Sorted({DayOf(itinerary[i]) : i \in 1..Len(itinerary)})

\* lines 730-739: the name given to a place without 'name': the first of the
\* keys place, place_name, title, location it has, else its description,
\* else '이름 미상'
FoundName(place) ==
    IF "place" \in DOMAIN place THEN place.place
    ELSE IF "place_name" \in DOMAIN place THEN place.place_name
    ELSE IF "title" \in DOMAIN place THEN place.title
    ELSE IF "location" \in DOMAIN place THEN place.location
    ELSE IF "description" \in DOMAIN place THEN place.description
    ELSE NameUnknown

\* lines 727-750: the place with the keys 'name' and 'type' it may lack
Normalised(place) ==
    [key \in DOMAIN place \cup {"name", "type"} |->
        IF key = "name" /\ "name" \notin DOMAIN place THEN FoundName(place)
        ELSE IF key = "type" /\ "type" \notin DOMAIN place THEN TypeActivity
        ELSE place[key]]

\* line 722 and the loop of lines 727-750: the items of the day, every item
\* of that day whatever its type, in the given order and normalised
DayPlaces(itinerary, day) ==
    LET OfDay(item) == DayOf(item) = day
        day_items == SelectSeq(itinerary, OfDay)
    IN  [i \in 1..Len(day_items) |-> Normalised(day_items[i])]

\* plan_itinerary_timeline.  Without a day the loop does not run and "[]" is
\* returned.  Otherwise line 753 calls the coroutine function plan_day with
\* the places of the first day and does not await it: none of plan_day runs,
\* day_timeline is a coroutine object, the for of line 755 raises TypeError
\* and line 766 returns the error text.  day_places is what line 753 handed
\* to plan_day.
plan_itinerary_timeline(itinerary) ==
    LET days == Days(itinerary)
    IN  IF days = <<>>
        THEN [status |-> "done", itinerary |-> itinerary, days |-> days,
              day_places |-> <<>>, error |-> FALSE, timeline_result |-> <<>>]
        ELSE [status |-> "done", itinerary |-> itinerary, days |-> days,
              day_places |-> DayPlaces(itinerary, days[1]),
              error |-> TRUE, timeline_result |-> <<>>]

----------------------------------------------------------------------------
(* tools.py: optimize_and_get_routes *)

\* float('inf'); Add and Less are + and < of floats on it
Inf == -1
Add(a, b) == IF a = Inf \/ b = Inf THEN Inf ELSE a + b
Less(a, b) == a # Inf /\ (b = Inf \/ a < b)

\* an element of a distance-matrix row
Element(status, has_duration, value) ==
    [status |-> status, has_duration |-> has_duration, value |-> value]

\* line 635: the duration of an element, inf unless its status is OK and it has one
ElementDuration(el) ==
    IF el.status = "OK" THEN (IF el.has_duration THEN el.value ELSE Inf) ELSE Inf

\* lines 631-637: duration_matrix[i][j] for all_places, from the provider's rows
DurationMatrix(all_places, rows) ==
    [i \in 1..Len(all_places) |->
        [j \in 1..Len(all_places) |-> ElementDuration(rows[all_places[i]][all_places[j]])]]

\* s without its i-th element
Without(s, i) == SubSeq(s, 1, i - 1) \o SubSeq(s, i + 1, Len(s))

\* itertools.permutations(s), in the order it yields them
RECURSIVE Perms(_)
RECURSIVE PermsFrom(_, _)
Perms(s) == IF s = <<>> THEN << <<>> >> ELSE PermsFrom(s, 1)
PermsFrom(s, i) ==
    IF i > Len(s) THEN <<>>
    ELSE LET rest == Perms(Without(s, i))
         IN  [k \in 1..Len(rest) |-> <<s[i]>> \o rest[k]] \o PermsFrom(s, i + 1)

\* the index lists tried when every index is permuted
Candidates_AllPermuted(n) == Perms([i \in 1..n |-> i])

\* the index lists tried when the first permutation is skipped
Candidates_SkipFirst(n) ==
    LET ps == Perms([i \in 1..(n - 1) |-> i + 1])
    IN  [k \in 1..(Len(ps) - 1) |-> <<1>> \o ps[k + 1]]

\* lines 649-651 and 658-660: [0] + list(p) for p in permutations(range(1, n));
\* indices are counted from 1 here, so 1 is the code's index 0
Candidates(n) ==
    LET ps == Perms([i \in 1..(n - 1) |-> i + 1])
    IN  [k \in 1..Len(ps) |-> <<1>> \o ps[k]]

\* line 652: sum of the matrix over consecutive indices
RECURSIVE PathDur(_, _)
PathDur(dm, idx) ==
    IF Len(idx) < 2 THEN 0
    ELSE Add(dm[idx[1]][idx[2]], PathDur(dm, Tail(idx)))

\* lines 652-655: one pass of the loop body, for the candidate cands[k]
SearchStep(dm, cands, k, best) ==
    LET current_dur == PathDur(dm, cands[k])
    IN  IF Less(current_dur, best.min_duration)
        THEN [min_duration |-> current_dur, best_order_indices |-> cands[k]]
        ELSE best

\* the passes lo..hi of the loop in their order, starting from best: those of
\* the first half, then those of the second half from what the first half left
RECURSIVE SearchRange(_, _, _, _, _)
SearchRange(dm, cands, lo, hi, best) ==
    IF lo > hi THEN best
    ELSE IF lo = hi THEN SearchStep(dm, cands, lo, best)
    ELSE LET after_first_half == SearchRange(dm, cands, lo, (lo + hi) \div 2, best)
         IN  IF after_first_half.min_duration = Inf
             THEN SearchRange(dm, cands, (lo + hi) \div 2 + 1, hi,
                              [min_duration |-> Inf, best_order_indices |-> <<>>])
             ELSE SearchRange(dm, cands, (lo + hi) \div 2 + 1, hi, after_first_half)

\* lines 650-655: the loop over the candidates from the k-th on
Search(dm, cands, k, best) == SearchRange(dm, cands, k, Len(cands), best)

\* the best indices used even when no finite order was found
OptimizedPlaces_NoFallback(all_places, best) ==
    [i \in 1..Len(best.best_order_indices) |-> all_places[best.best_order_indices[i]]]

\* lines 666-671: the returned order
OptimizedPlaces(all_places, best) ==
    IF best.min_duration = Inf THEN all_places
    ELSE [i \in 1..Len(best.best_order_indices) |-> all_places[best.best_order_indices[i]]]

\* True if x is an element of the list s
InList(x, s) == \E i \in 1..Len(s) : s[i] = x

\* lines 612-617
StartFixed(plist, start_location) == start_location # "" /\ ~InList(start_location, plist)
AllPlaces(plist, start_location) ==
    IF StartFixed(plist, start_location) THEN <<start_location>> \o plist ELSE plist

OptIdle == [status |-> "idle"]

\* answer of a call that returns an error text
OptError(plist, start_location, why) ==
    [status |-> "error", why |-> why, places |-> plist, start_location |-> start_location]

\* lines 666-698: what the call leaves when the search is over.  geocodable
\* are the places the geocoder knows, which lines 624-640 never ask;
\* permutations is the number of times the loop of line 650 or 659 ran.
OptAnswer(plist, start_location, all_places, duration_matrix, best, permutations, geocodable) ==
    [status |-> "ok",
     places |-> plist,
     start_location |-> start_location,
     all_places |-> all_places,
     start_fixed |-> StartFixed(plist, start_location),
     duration_matrix |-> duration_matrix,
     min_duration |-> best.min_duration,
     best_order_indices |-> best.best_order_indices,
     permutations |-> permutations,
     geocodable |-> geocodable,
     optimized_places |-> OptimizedPlaces(all_places, best),
     \* line 677: the total is printed, in whole minutes, only if finite
     total_reported |-> best.min_duration # Inf,
     total_minutes |-> IF best.min_duration # Inf THEN best.min_duration \div 60 ELSE 0]

\* the search started from a best duration of 0 instead of infinity
BestOrder_StartsAtZero(duration_matrix, cands) ==
    Search(duration_matrix, cands, 1, [min_duration |-> 0, best_order_indices |-> <<>>])

\* lines 643-664: the search over the candidates of n places
BestOrder(duration_matrix, cands) ==
    Search(duration_matrix, cands, 1, [min_duration |-> Inf, best_order_indices |-> <<>>])

\* optimize_and_get_routes: client is FALSE without an API key, raises says that
\* the distance-matrix request fails, rows are the rows it answers with
optimize_and_get_routes(plist, start_location, client, raises, rows, geocodable) ==
    LET all_places == AllPlaces(plist, start_location)
        n == Len(all_places)
    IN  IF ~client THEN OptError(plist, start_location, "no client")
        ELSE IF n < 2 THEN OptError(plist, start_location, "too few places")
        ELSE IF raises THEN OptError(plist, start_location, "distance matrix failed")
        ELSE OptAnswer(plist, start_location, all_places,
                       DurationMatrix(all_places, rows),
                       BestOrder(DurationMatrix(all_places, rows), Candidates(n)),
                       Len(Candidates(n)), geocodable)

----------------------------------------------------------------------------
(* search.py: RegionPreFilteringRetriever *)

\* an address or a region filter is a sequence of parts (what split() gives),
\* a part is a sequence of syllables
SuffixSi == "si"
SuffixDo == "do"
SuffixGun == "gun"
SuffixGu == "gu"

\* line 22, in the order the loop tests them
Suffixes ==
    << <<"teuk", "byeol", "ja", "chi", "si">>, <<"teuk", "byeol", "ja", "chi", "do">>,
       <<"gwang", "yeok", "si">>, <<"teuk", "byeol", "si">>, <<"nam", "do">>, <<"buk", "do">> >>

\* str.endswith
EndsWith(part, suf) ==
    Len(suf) <= Len(part) /\ SubSeq(part, Len(part) - Len(suf) + 1, Len(part)) = suf

\* str.replace(suf, ""): every occurrence, found from the left, is removed
RECURSIVE Replace(_, _)
Replace(part, suf) ==
    IF Len(part) < Len(suf) THEN part
    ELSE IF SubSeq(part, 1, Len(suf)) = suf THEN Replace(SubSeq(part, Len(suf) + 1, Len(part)), suf)
    ELSE <<Head(part)>> \o Replace(Tail(part), suf)

\* _normalize_region_part
_normalize_region_part(part) ==
    IF part = <<>> THEN <<>>
    ELSE
        LET hits == {k \in 1..Len(Suffixes) : EndsWith(part, Suffixes[k])}
        IN  IF hits # {} THEN Replace(part, Suffixes[Min(hits)])
            ELSE IF Len(part) > 2 /\ part[Len(part)] \in {SuffixDo, SuffixSi, SuffixGun, SuffixGu}
                 THEN SubSeq(part, 1, Len(part) - 1)
            ELSE part

\* lines 38-42: the targets of a fixed_location (<<>> if there is none)
Targets(fixed_location) ==
    [i \in 1..Len(fixed_location) |-> _normalize_region_part(fixed_location[i])]

\* " ".join(parts)
RECURSIVE Join(_)
Join(parts) ==
    IF parts = <<>> THEN <<>>
    ELSE IF Len(parts) = 1 THEN parts[1]
    ELSE parts[1] \o <<" ">> \o Join(Tail(parts))

\* str(float nan), the region of a row without one
Nan == << <<"nan">> >>

\* the single-target branch demanding a match of every part of the address
SingleTargetValid_EveryPart(target_keyword, doc_parts) ==
    \A i \in 1..Len(doc_parts) :
        Contains(target_keyword, doc_parts[i]) \/ Contains(doc_parts[i], target_keyword)

\* lines 61-71: one target
SingleTargetValid(target_keyword, doc_parts) ==
    \E i \in 1..Len(doc_parts) :
        Contains(target_keyword, doc_parts[i]) \/ Contains(doc_parts[i], target_keyword)

\* the branch for several targets content with one of them
MultiTargetValid_AnyTarget(targets, doc_parts) ==
    \E j \in 1..Len(targets) : Contains(targets[j], Join(doc_parts))

\* lines 75-79: two or more targets
MultiTargetValid(targets, doc_parts) ==
    \A j \in 1..Len(targets) : Contains(targets[j], Join(doc_parts))

\* lines 44-81: is_valid_region, on the region text of the metadata
is_valid_region(targets, region_str) ==
    IF targets = <<>> THEN TRUE
    ELSE IF region_str = <<>> \/ region_str = Nan THEN FALSE
    ELSE
        LET doc_parts == [i \in 1..Len(region_str) |-> _normalize_region_part(region_str[i])]
        IN  IF Len(targets) = 1 THEN SingleTargetValid(targets[1], doc_parts)
            ELSE MultiTargetValid(targets, doc_parts)

\* lines 91-97: the documents kept, from the i-th on, until k are kept
RECURSIVE FilterDocs(_, _, _, _, _)
FilterDocs(raw_docs, targets, k, i, filtered_docs) ==
    IF i > Len(raw_docs) THEN filtered_docs
    ELSE
        LET kept == IF is_valid_region(targets, raw_docs[i])
                    THEN Append(filtered_docs, i) ELSE filtered_docs
        IN  IF Len(kept) >= k THEN kept
            ELSE FilterDocs(raw_docs, targets, k, i + 1, kept)

FltIdle == [status |-> "idle"]

\* _get_relevant_documents: raw_docs are the regions of the documents the
\* vector search returned, filtered_docs the positions of the documents kept
_get_relevant_documents(fixed_location, k, search_fails, raw_docs) ==
    LET targets == Targets(fixed_location)
    IN  IF search_fails
        THEN [status |-> "done", fixed_location |-> fixed_location, targets |-> targets,
              k |-> k, raw_docs |-> <<>>, verdicts |-> <<>>, filtered_docs |-> <<>>]
        ELSE [status |-> "done", fixed_location |-> fixed_location, targets |-> targets,
              k |-> k, raw_docs |-> raw_docs,
              verdicts |-> [i \in 1..Len(raw_docs) |-> is_valid_region(targets, raw_docs[i])],
              filtered_docs |-> FilterDocs(raw_docs, targets, k, 1, <<>>)]

----------------------------------------------------------------------------
(* tools.py: get_coordinates, calculate_distance_time, get_detailed_route *)

\* line 80-83, as syllables, in list order
KOREAN_CITIES_AND_PROVINCES ==
    << <<"seo", "ul">>, <<"bu", "san">>, <<"dae", "gu">>, <<"in", "cheon">>,
       <<"gwang", "ju">>, <<"dae", "jeon">>, <<"ul", "san">>, <<"se", "jong">>,
       <<"gyeong", "gi">>, <<"gang", "won">>, <<"chung", "buk">>, <<"chung", "nam">>,
       <<"jeon", "buk">>, <<"jeon", "nam">>, <<"gyeong", "buk">>, <<"gyeong", "nam">>,
       <<"je", "ju">> >>

\* a geocoding answer: no result, or the latitude and longitude of the first
\* result in millionths of a degree
NoCoord == [ok |-> FALSE, lat |-> 0, lng |-> 0]
Coord(lat, lng) == [ok |-> TRUE, lat |-> lat, lng |-> lng]

\* lines 98-108: the answer of the first retry that has one; answers[k + 1] is
\* the provider's answer to the name prefixed with the k-th province
RECURSIVE RetryProvinces(_, _, _)
RetryProvinces(location_name, answers, k) ==
    IF k > Len(KOREAN_CITIES_AND_PROVINCES) THEN NoCoord
    ELSE IF Contains(KOREAN_CITIES_AND_PROVINCES[k], location_name)
         THEN RetryProvinces(location_name, answers, k + 1)
    ELSE IF answers[k + 1].ok THEN answers[k + 1]
    ELSE RetryProvinces(location_name, answers, k + 1)

\* get_coordinates: geo is the provider's behaviour for this name, its
\* answers to the plain and the prefixed queries or an exception
get_coordinates(location_name, client, geo) ==
    IF ~client THEN NoCoord
    ELSE IF geo.raises THEN NoCoord
    ELSE IF geo.answers[1].ok THEN geo.answers[1]
    ELSE RetryProvinces(location_name, geo.answers, 1)

\* the retries go on after a success
RECURSIVE RetryCalls_NoBreak(_, _, _)
RetryCalls_NoBreak(location_name, answers, k) ==
    IF k > Len(KOREAN_CITIES_AND_PROVINCES) THEN <<>>
    ELSE IF Contains(KOREAN_CITIES_AND_PROVINCES[k], location_name)
         THEN RetryCalls_NoBreak(location_name, answers, k + 1)
    ELSE <<k>> \o RetryCalls_NoBreak(location_name, answers, k + 1)

\* lines 98-108: the provinces the provider is asked with, from the k-th on
RECURSIVE RetryCalls(_, _, _)
RetryCalls(location_name, answers, k) ==
    IF k > Len(KOREAN_CITIES_AND_PROVINCES) THEN <<>>
    ELSE IF Contains(KOREAN_CITIES_AND_PROVINCES[k], location_name)
         THEN RetryCalls(location_name, answers, k + 1)
    ELSE IF answers[k + 1].ok THEN <<k>>
    ELSE <<k>> \o RetryCalls(location_name, answers, k + 1)

\* the calls of geocode that get_coordinates makes: 0 is the plain name, k
\* the name with the k-th province in front
GeocodeCalls(location_name, client, geo) ==
    IF ~client THEN <<>>
    ELSE IF geo.raises \/ geo.answers[1].ok THEN <<0>>
    ELSE <<0>> \o RetryCalls(location_name, geo.answers, 1)

\* the points the provider answers with
PBusan == Coord(35179554, 129075642)
PNear == Coord(35179594, 129075642)
PSeoul == Coord(37566535, 126977969)
PEquator == Coord(0, 127000000)

\* lines 484-494: the great-circle distance in centimetres, as the code's
\* formula gives it for the points above that have a latitude other than 0
DistanceCm(a, b) ==
    IF a = b THEN 0
    ELSE IF {a, b} = {PBusan, PNear} THEN 444
    ELSE IF {a, b} = {PBusan, PSeoul} THEN 32512239
    ELSE 32511873

\* lines 497-502: the assumed speed, in tenths of km/h
SpeedTenths(mode) == IF mode = "walking" THEN 35 ELSE 250

\* lines 508-513: minutes below an hour, hours and minutes from an hour on
DurationText(duration_seconds) ==
    IF duration_seconds < 3600
    THEN [hours |-> 0, minutes |-> duration_seconds \div 60]
    ELSE [hours |-> duration_seconds \div 3600, minutes |-> (duration_seconds % 3600) \div 60]

\* calculate_distance_time: centimetres, int() of the seconds, and the text
calculate_distance_time(a, b, mode) ==
    LET distance_cm == DistanceCm(a, b)
        duration_seconds == (distance_cm * 36) \div (SpeedTenths(mode) * 100)
    IN  [distance_cm |-> distance_cm,
         duration_seconds |-> duration_seconds,
         duration_text |-> DurationText(duration_seconds)]

\* get_detailed_route returned None
RouteNone ==
    [found |-> FALSE, estimated |-> FALSE, mode |-> "", duration_value |-> 0,
     duration |-> DurationText(0), distance_tenths_km |-> 0]

\* lines 561-567: the dict made of the provider's first leg
RouteOfLeg(mode, leg) ==
    [found |-> TRUE, estimated |-> FALSE, mode |-> mode, duration_value |-> leg.duration_value,
     duration |-> DurationText(leg.duration_value), distance_tenths_km |-> leg.distance_tenths_km]

\* lines 589-595: the dict of the estimate; the distance is printed with one decimal
RouteOfEstimate(mode, est) ==
    [found |-> TRUE, estimated |-> TRUE, mode |-> mode, duration_value |-> est.duration_seconds,
     duration |-> est.duration_text, distance_tenths_km |-> (est.distance_cm + 5000) \div 10000]

\* truth value of a latitude in `if start_lat and end_lat`
Truthy(c) == c.ok /\ c.lat # 0

\* the estimate is made when one endpoint has a latitude
BothLatitudes_Either(start_coords, end_coords) == Truthy(start_coords) \/ Truthy(end_coords)

\* line 579: `if start_lat and end_lat`
BothLatitudes(start_coords, end_coords) == Truthy(start_coords) /\ Truthy(end_coords)

RteIdle == [status |-> "idle"]
GeocIdle == [status |-> "idle"]
PlanIdle == [status |-> "idle"]
RegIdle == [status |-> "idle"]
SelIdle == [status |-> "idle"]
GraphIdle == [pc |-> "idle"]

\* get_detailed_route: directions is "ok", "empty" or "raise"
get_detailed_route(start_place, end_place, mode, client, directions, leg, geo) ==
    LET start_coords == get_coordinates(start_place, client, geo[start_place])
        end_coords == get_coordinates(end_place, client, geo[end_place])
        result ==
            IF ~client THEN RouteNone
            ELSE IF directions = "ok" THEN RouteOfLeg(mode, leg)
            ELSE IF BothLatitudes(start_coords, end_coords)
                 THEN RouteOfEstimate(mode, calculate_distance_time(start_coords, end_coords, mode))
            ELSE RouteNone
    IN  [status |-> "done", start_place |-> start_place, end_place |-> end_place,
         mode |-> mode, client |-> client, directions |-> directions,
         fallback |-> client /\ directions # "ok",
         start_coords |-> start_coords, end_coords |-> end_coords,
         result |-> result]

----------------------------------------------------------------------------
(* tools.py: find_and_select_best_place, select_best_place *)

\* what the tools return: the JSON of a place, or a text that is no JSON
Place(name, how, seconds) == [kind |-> "place", name |-> name, how |-> how, seconds |-> seconds]
Message(text) == [kind |-> "message", name |-> "", how |-> text, seconds |-> 0]

\* lines 880-893: the first element with status OK and the least duration;
\* 0 when no element is OK
BestIndex(elements) ==
    LET ok == { idx \in 1..Len(elements) : elements[idx].status = "OK" }
    IN  IF ok = {} THEN 0
        ELSE Min({ idx \in ok : \A other \in ok : elements[idx].value <= elements[other].value })

\* select_best_place: matrix is the provider's answer, its elements for the
\* candidates in their order, no rows, or an exception
select_best_place(candidates, client, matrix) ==
    IF candidates = <<>> THEN Message("empty")
    ELSE IF ~client THEN Place(candidates[1], "no information", 0)
    ELSE IF matrix.raises THEN Place(candidates[1], "error", 0)
    ELSE IF BestIndex(matrix.elements) = 0 THEN Place(candidates[1], "no route", 0)
    ELSE Place(candidates[BestIndex(matrix.elements)], "best",
               matrix.elements[BestIndex(matrix.elements)].value)

\* the candidates are handed on as they are
Remaining_Unfiltered(candidates, exclude_places) == candidates

\* lines 810-813: `[c for c in candidates if c not in exclude_places]`
Remaining(candidates, exclude_places) ==
    LET kept(c) == c \notin exclude_places
    IN  SelectSeq(candidates, kept)

\* find_and_select_best_place from line 803 on: candidates are the names
\* parsed from the search result, without duplicates, in the order list(set())
\* gave them; matrix answers for the candidates that remain
find_and_select_best_place(candidates, exclude_places, client, matrix) ==
    LET remaining == Remaining(candidates, exclude_places)
        result == IF candidates = <<>> THEN Message("no names")
                  ELSE IF remaining = <<>> THEN Message("nothing new")
                  ELSE select_best_place(remaining, client, matrix)
    IN  [status |-> "done", candidates |-> candidates, exclude_places |-> exclude_places,
         client |-> client, matrix |-> matrix, remaining |-> remaining, result |-> result]

----------------------------------------------------------------------------
(* region_cut_fuzz.py: parse_regions_from_query *)

\* a query is a sequence of characters: a Hangul syllable (written in Latin
\* letters, two letters or more), a Latin letter, a blank or a separator

\* lines 8-11, in list order
CANON ==
    << <<"seo", "ul">>, <<"bu", "san">>, <<"dae", "gu">>, <<"in", "cheon">>,
       <<"gwang", "ju">>, <<"dae", "jeon">>, <<"ul", "san">>, <<"se", "jong">>,
       <<"gyeong", "gi">>, <<"gang", "won">>, <<"chung", "buk">>, <<"chung", "nam">>,
       <<"jeon", "buk">>, <<"jeon", "nam">>, <<"gyeong", "buk">>, <<"gyeong", "nam">>,
       <<"je", "ju">> >>

\* lines 14-32: the aliases of CANON[i], at index i
ALIASES ==
    << { <<"seo", "ul", "si">>, <<"seo", "ul", "teuk", "byeol", "si">>,
         <<"s", "e", "o", "u", "l">>, <<"seo", "ul", "teuk">> },
       { <<"bu", "san", "si">>, <<"bu", "san", "gwang", "yeok", "si">>, <<"b", "u", "s", "a", "n">> },
       { <<"dae", "gu", "si">>, <<"dae", "gu", "gwang", "yeok", "si">>, <<"d", "a", "e", "g", "u">> },
       { <<"in", "cheon", "si">>, <<"in", "cheon", "gwang", "yeok", "si">>, <<"i", "n", "c", "h", "e", "o", "n">> },
       { <<"gwang", "ju", "si">>, <<"gwang", "ju", "gwang", "yeok", "si">>, <<"g", "w", "a", "n", "g", "j", "u">> },
       { <<"dae", "jeon", "si">>, <<"dae", "jeon", "gwang", "yeok", "si">>, <<"d", "a", "e", "j", "e", "o", "n">> },
       { <<"ul", "san", "si">>, <<"ul", "san", "gwang", "yeok", "si">>, <<"u", "l", "s", "a", "n">> },
       { <<"se", "jong", "si">>, <<"se", "jong", "teuk", "byeol", "ja", "chi", "si">>, <<"s", "e", "j", "o", "n", "g">> },
       { <<"gyeong", "gi", "do">>, <<"g", "y", "e", "o", "n", "g", "g", "i">> },
       { <<"gang", "won", "do">>, <<"g", "a", "n", "g", "w", "o", "n">>, <<"gang", "won", "teuk", "byeol", "ja", "chi", "do">> },
       { <<"chung", "cheong", "buk", "do">>, <<"c", "h", "u", "n", "g", "b", "u", "k">> },
       { <<"chung", "cheong", "nam", "do">>, <<"c", "h", "u", "n", "g", "n", "a", "m">> },
       { <<"jeon", "ra", "buk", "do">>, <<"j", "e", "o", "n", "b", "u", "k">>, <<"jeon", "buk", "teuk", "byeol", "ja", "chi", "do">> },
       { <<"jeon", "ra", "nam", "do">>, <<"j", "e", "o", "n", "n", "a", "m">> },
       { <<"gyeong", "sang", "buk", "do">>, <<"g", "y", "e", "o", "n", "g", "b", "u", "k">> },
       { <<"gyeong", "sang", "nam", "do">>, <<"g", "y", "e", "o", "n", "g", "n", "a", "m">> },
       { <<"je", "ju", "do">>, <<"j", "e", "j", "u">>, <<"je", "ju", "teuk", "byeol", "ja", "chi", "do">> } >>

\* lines 35-45: a macro and the names it stands for
MACROS ==
    { [macro |-> <<"su", "do", "gwon">>,
       expands |-> { <<"seo", "ul">>, <<"gyeong", "gi">>, <<"in", "cheon">> }],
      [macro |-> <<"bu", "ul", "gyeong">>,
       expands |-> { <<"bu", "san">>, <<"ul", "san">>, <<"gyeong", "nam">> }],
      [macro |-> <<"yeong", "nam">>,
       expands |-> { <<"bu", "san">>, <<"dae", "gu">>, <<"ul", "san">>, <<"gyeong", "buk">>, <<"gyeong", "nam">> }],
      [macro |-> <<"ho", "nam">>,
       expands |-> { <<"gwang", "ju">>, <<"jeon", "buk">>, <<"jeon", "nam">> }],
      [macro |-> <<"chung", "cheong", "gwon">>,
       expands |-> { <<"dae", "jeon">>, <<"se", "jong">>, <<"chung", "buk">>, <<"chung", "nam">> }],
      [macro |-> <<"gang", "won", "gwon">>,
       expands |-> { <<"gang", "won">> }],
      [macro |-> <<"je", "ju", "gwon">>,
       expands |-> { <<"je", "ju">> }],
      [macro |-> <<"seo", "ul", "geun", "gyo">>,
       expands |-> { <<"seo", "ul">>, <<"gyeong", "gi">>, <<"in", "cheon">> }],
      [macro |-> <<"su", "do">>,
       expands |-> { <<"seo", "ul">> }] }

\* str.lower on the Latin letters; the other characters have no case
UpperLetters ==
    << "A", "B", "C", "D", "E", "F", "G", "H", "I", "J", "K", "L", "M",
       "N", "O", "P", "Q", "R", "S", "T", "U", "V", "W", "X", "Y", "Z" >>
LowerLetters ==
    << "a", "b", "c", "d", "e", "f", "g", "h", "i", "j", "k", "l", "m",
       "n", "o", "p", "q", "r", "s", "t", "u", "v", "w", "x", "y", "z" >>
LowerChar(c) ==
    IF \E i \in 1..Len(UpperLetters) : UpperLetters[i] = c
    THEN LowerLetters[CHOOSE i \in 1..Len(UpperLetters) : UpperLetters[i] = c]
    ELSE c
lower(text) == [i \in 1..Len(text) |-> LowerChar(text[i])]

\* line 47: the separators , | / - and the middle dot; and the blank
SEP == {",", "|", "/", "middot", "-"}
Whitespace == {" "}

\* lines 49-52: the words between separators and blanks
RECURSIVE SplitFrom(_, _, _)
SplitFrom(q, i, word) ==
    IF i > Len(q) THEN (IF word = <<>> THEN <<>> ELSE <<word>>)
    ELSE IF q[i] \in SEP \cup Whitespace
         THEN (IF word = <<>> THEN <<>> ELSE <<word>>) \o SplitFrom(q, i + 1, <<>>)
    ELSE SplitFrom(q, i + 1, Append(word, q[i]))

_tokenize_query(q) == SplitFrom(q, 1, <<>>)

\* lines 85-88: the canonical names the query contains
ExactTier(query, found) ==
    found \cup { CANON[i] : i \in { j \in 1..Len(CANON) : Contains(CANON[j], query) } }

\* one region of every macro the query contains
MacroTier_OneOfEach(query, found) ==
    found \cup { CHOOSE c \in m.expands : TRUE : m \in { n \in MACROS : Contains(n.macro, query) } }

\* the macros are expanded only when nothing was found before
MacroTier_OnlyIfEmpty(query, found) ==
    IF found # {} THEN found
    ELSE found \cup UNION { m.expands : m \in { n \in MACROS : Contains(n.macro, query) } }

\* lines 90-93: `found |= expands` for every macro the query contains
MacroTier(query, found) ==
    found \cup UNION { m.expands : m \in { n \in MACROS : Contains(n.macro, query) } }

\* lines 95-98: the names with an alias that the lowered query contains
LoweredAliases == [j \in 1..Len(CANON) |-> { lower(a) : a \in ALIASES[j] }]
AliasTier(q, found) ==
    found \cup { CANON[i] : i \in { j \in 1..Len(CANON) :
                                   \E a \in LoweredAliases[j] : Contains(a, q) } }

\* the similarity library: it cannot be imported, or extractOne answers the
\* t-th token with scores[t], the best canonical name and its score
NoLibrary == [available |-> FALSE, scores |-> <<>>]

\* lines 101-113: the best match of every token of two characters or more,
\* when its score reaches the threshold; nothing when the import fails
FuzzyTier(tokens, fuzzy, fuzzy_threshold, lib, found) ==
    IF ~fuzzy \/ ~lib.available THEN found
    ELSE found \cup { lib.scores[t].cand :
                        t \in { u \in 1..Len(tokens) :
                                  /\ Len(tokens[u]) >= 2
                                  /\ lib.scores[u].score >= fuzzy_threshold } }

parse_regions_from_query(query, fuzzy, fuzzy_threshold, lib) ==
    LET q == lower(query)
        tokens == _tokenize_query(q)
        after_exact == ExactTier(query, {})
        after_macros == MacroTier(query, after_exact)
        after_aliases == AliasTier(q, after_macros)
    IN  [status |-> "done", query |-> query, fuzzy |-> fuzzy,
         fuzzy_threshold |-> fuzzy_threshold, lib |-> lib, tokens |-> tokens,
         after_exact |-> after_exact, after_macros |-> after_macros,
         after_aliases |-> after_aliases,
         found |-> FuzzyTier(tokens, fuzzy, fuzzy_threshold, lib, after_aliases)]

----------------------------------------------------------------------------
(* Inputs of the scheduler *)

VenuePool ==
    { [name |-> <<"A">>, type |-> Sikdang],
      [name |-> <<"B">>, type |-> Kape],
      [name |-> <<"jeomsim", ":", "C">>, type |-> Gwangwangji] }

ApiNames == {extract_place_name_for_api(v.name) : v \in VenuePool}

\* the start_time_str of the constructor, split at the colon; 25:00 is no time
StartTimeStrs == { <<12, 0>>, <<23, 30>>, <<25, 0>> }

Leg(s) == [found |-> TRUE, duration_value |-> s]

\* the scenario of the design: legs of 20, 15 and 25 minutes (10 elsewhere)
RoutesScenario ==
    [p \in ApiNames \X ApiNames |->
        IF p = << <<"A">>, <<"B">> >> THEN Leg(1200)
        ELSE IF p = << <<"B">>, <<"C">> >> THEN Leg(900)
        ELSE IF p = << <<"C">>, <<"A">> >> THEN Leg(1500)
        ELSE Leg(600)]

\* legs that are no whole minutes, a lookup without result, an empty leg and a
\* leg longer than half a day
RoutesIrregular ==
    [p \in ApiNames \X ApiNames |->
        IF p = << <<"A">>, <<"B">> >> THEN Leg(90)
        ELSE IF p = << <<"A">>, <<"C">> >> THEN Leg(3599)
        ELSE IF p = << <<"B">>, <<"A">> >> THEN NoRoute
        ELSE IF p = << <<"B">>, <<"C">> >> THEN Leg(45)
        ELSE IF p = << <<"C">>, <<"A">> >> THEN Leg(50000)
        ELSE Leg(0)]

RouteTables == {RoutesScenario, RoutesIrregular}

\* venue lists of one day, no venue twice in a row
VenueLists(day) ==
    UNION { { [i \in 1..n |-> [name |-> f[i].name, type |-> f[i].type, day |-> day]] :
                f \in {g \in [1..n -> VenuePool] : \A i \in 1..(n - 1) : g[i] # g[i + 1]} } :
            n \in 1..MaxPlaces }

----------------------------------------------------------------------------
(* The scheduler as a state machine *)

InitSched ==
    /\ \E s \in StartTimeStrs :
          /\ default_start_time = ParseStartTime(s)
          /\ current_time = Combine(1, ParseStartTime(s))
    /\ routes \in RouteTables
    /\ places = <<>>
    /\ timeline = Returned(<<>>)
    /\ opt = OptIdle
    /\ flt = FltIdle
    /\ rte = RteIdle
    /\ geoc = GeocIdle
    /\ plan = PlanIdle
    /\ reg = RegIdle
    /\ sel = SelIdle
    /\ graph = GraphIdle

\* await scheduler.plan_day(ps) with a venue list
PlanDay ==
    \E day \in 1..MaxDay : \E ps \in VenueLists(day) :
        /\ places' = ps
        /\ timeline' = plan_day(ps, current_time, routes)
        /\ current_time' = DayStart(ps, current_time)
        /\ UNCHANGED <<default_start_time, routes, opt, flt, rte, geoc, plan, reg, sel, graph>>

\* await scheduler.plan_day([]): line 47 returns before anything is assigned
PlanDayEmpty ==
    /\ places' = <<>>
    /\ timeline' = plan_day(<<>>, current_time, routes)
    /\ UNCHANGED <<default_start_time, current_time, routes, opt, flt, rte, geoc, plan, reg, sel, graph>>

NextSched == PlanDay \/ PlanDayEmpty

SpecSched == InitSched /\ [][NextSched]_vars

----------------------------------------------------------------------------
(* Properties of the scheduler *)

\* C1: plan_day returns a timeline for any venue list and any legs, and in
\* it the end of an item is the start of the item after it.
C1_Continuity ==
    /\ ~timeline.raised
    /\ \A i \in 1..(Len(timeline.items) - 1) :
          timeline.items[i].end = timeline.items[i + 1].start

\* C2: for a non-empty venue list plan_day returns a timeline that starts
\* and ends with an activity and in which no two adjacent items have the
\* same type.
C2_Alternation ==
    places # <<>> =>
        /\ ~timeline.raised
        /\ timeline.items # <<>>
        /\ timeline.items[1].type = "activity"
        /\ timeline.items[Len(timeline.items)].type = "activity"
        /\ \A i \in 1..(Len(timeline.items) - 1) :
              timeline.items[i].type # timeline.items[i + 1].type

\* C3: the timeline of a day numbered 2 or more starts at 10:00, whatever
\* start time the scheduler was constructed with; the scheduler holds 10:00
\* of that day also when the call did not return.
C3_DayReset ==
    (places # <<>> /\ places[1].day >= 2) =>
        /\ current_time = Combine(places[1].day, <<10, 0>>)
        /\ ~timeline.raised => timeline.items[1].start = <<10, 0>>

\* a scheduler constructed with 23:30 that planned a day after the first
C3_Witness ==
    /\ default_start_time = <<23, 30>>
    /\ places # <<>>
    /\ places[1].day >= 2
    /\ ~timeline.raised
    /\ timeline.items[1].start = <<10, 0>>

IsActivity(item) == item.type = "activity"
IsMove(item) == item.type = "move"

\* seconds of all stays of a venue list
RECURSIVE StaySeconds(_)
StaySeconds(ps) ==
    IF ps = <<>> THEN 0 ELSE _estimate_duration(Head(ps)) * 60 + StaySeconds(Tail(ps))

\* seconds of all legs between consecutive venues, 1800 where the lookup gave nothing
RECURSIVE LegSeconds(_, _)
LegSeconds(ps, rt) ==
    IF Len(ps) < 2 THEN 0
    ELSE LET r == rt[<<extract_place_name_for_api(ps[1].name),
                       extract_place_name_for_api(ps[2].name)>>]
         IN  (IF r.found THEN r.duration_value ELSE 1800) + LegSeconds(Tail(ps), rt)

\* the scenario of the design: 12:00, venues of 90/60/120/90 minutes, legs of
\* 20/15/25 minutes
Scenario ==
    /\ routes = RoutesScenario
    /\ Len(places) = 4
    /\ [i \in 1..4 |-> extract_place_name_for_api(places[i].name)]
           = << <<"A">>, <<"B">>, <<"C">>, <<"A">> >>
    /\ [i \in 1..4 |-> _estimate_duration(places[i])] = <<90, 60, 120, 90>>
    /\ current_time = Combine(1, <<12, 0>>)

\* C4: a day of n venues gives n activities, one per venue in the given
\* order and with its name, and n-1 moves; the last activity ends at the day
\* start plus all stays and all legs, which in the scenario of the design is
\* 17:30.
C4_CountsAndEnd ==
    places # <<>> =>
        LET acts == SelectSeq(timeline.items, IsActivity)
            moves == SelectSeq(timeline.items, IsMove)
        IN  /\ ~timeline.raised
            /\ Len(acts) = Len(places)
            /\ \A i \in 1..Len(places) : acts[i].name = places[i].name
            /\ Len(moves) = Len(places) - 1
            /\ timeline.items[1].start = strftime(current_time)
            /\ timeline.items[Len(timeline.items)].end =
                   strftime(current_time + StaySeconds(places) + LegSeconds(places, routes))
            /\ Scenario => timeline.items[Len(timeline.items)].end = <<17, 30>>

\* C12: the outcome of plan_day for a venue list and the provider's answers
\* is the one a scheduler that has planned nothing yet gives for them,
\* whatever plan_day calls the scheduler served before.
C12_NoHiddenState ==
    timeline = plan_day(places, Combine(1, default_start_time), routes)

\* minutes from one displayed time to another, modulo 24 hours
MinutesBetween(start, end) ==
    ((end[1] * 60 + end[2]) - (start[1] * 60 + start[2]) + 1440) % 1440

\* the lookup for the leg from the i-th venue to the next gave nothing
LegWithoutRoute(i) ==
    ~routes[<<extract_place_name_for_api(places[i].name),
              extract_place_name_for_api(places[i + 1].name)>>].found

\* C21: a leg whose route lookup returned nothing does not abort the day: it
\* is in the timeline as a move of 30 minutes between its two venues, and
\* every venue after it has its activity.
C21_DefaultLeg ==
    \A i \in 1..(Len(places) - 1) :
        LegWithoutRoute(i) =>
            /\ ~timeline.raised
            /\ Len(timeline.items) = 2 * Len(places) - 1
            /\ timeline.items[2 * i].type = "move"
            /\ timeline.items[2 * i].from = places[i].name
            /\ timeline.items[2 * i].to = places[i + 1].name
            /\ timeline.items[2 * i].duration_min = 30
            /\ MinutesBetween(timeline.items[2 * i].start, timeline.items[2 * i].end) = 30
            /\ \A j \in (i + 1)..Len(places) :
                  /\ timeline.items[2 * j - 1].type = "activity"
                  /\ timeline.items[2 * j - 1].name = places[j].name

\* the minutes an item states: duration_min of a move, duration_minutes of an activity
StatedMinutes(item) ==
    IF item.type = "move" THEN item.duration_min ELSE item.duration_minutes

\* C29: plan_day produces a timeline whatever the legs' durations in seconds
\* are, and the minutes every item of it states, move or activity, are the
\* minutes between its displayed start and end, modulo 24 hours.
C29_MinutesAsDisplayed ==
    /\ ~timeline.raised
    /\ \A i \in 1..Len(timeline.items) :
          StatedMinutes(timeline.items[i]) % 1440
              = MinutesBetween(timeline.items[i].start, timeline.items[i].end)

\* minute of the day of a displayed time
MinuteOfDay(hm) == hm[1] * 60 + hm[2]

\* C30: plan_day produces the timeline of a day for every day start, number
\* of venues and legs, and the displayed start times in it never decrease
\* in list order.
C30_StartsInOrder ==
    /\ ~timeline.raised
    /\ \A i \in 1..(Len(timeline.items) - 1) :
          MinuteOfDay(timeline.items[i].start) <= MinuteOfDay(timeline.items[i + 1].start)

----------------------------------------------------------------------------
(* The stay of a venue: plan_day of a fresh scheduler with one venue *)

\* categories: the keys of the table, two that are no key, and two in a row
CategoryParts ==
    {Sikdang, Kape, Gwangwangji, Sanchaekro, Themepark, Sukso, <<"activity">>, <<"han">>}
Categories == CategoryParts \cup { a \o b : a \in CategoryParts, b \in CategoryParts }

\* names: a word, the cafe or the dining keyword, and two of them in a row
NameParts == { <<"A">>, Kape, Sikdang }
VenueNames == NameParts \cup { a \o b : a \in NameParts, b \in NameParts }

\* the keys a venue dict may come with: each of the three may be missing
VenueKeys == SUBSET {"name", "type", "day"}

\* the dict with only the keys of ks
VenueDict(name, category, day, ks) ==
    [k \in ks |-> IF k = "name" THEN name ELSE IF k = "type" THEN category ELSE day]

PlanDayOneVenue ==
    /\ places = <<>>
    /\ \E day \in 1..MaxDay, category \in Categories, name \in VenueNames, ks \in VenueKeys :
          LET ps == << VenueDict(name, category, day, ks) >>
          IN  /\ places' = ps
              /\ timeline' = plan_day(ps, current_time, routes)
              /\ current_time' = DayStart(ps, current_time)
    /\ UNCHANGED <<default_start_time, routes, opt, flt, rte, geoc, plan, reg, sel, graph>>

NextStay == PlanDayOneVenue

SpecStay == InitSched /\ [][NextStay]_vars

\* the category and the name a venue record states, if it states them
HasCategory(place) == "type" \in DOMAIN place
HasName(place) == "name" \in DOMAIN place

\* a keyword is in the name of the venue
NameHas(keyword, place) == HasName(place) /\ Occurs(keyword, place.name)

\* the stay by the name: the cafe keyword, else the dining keyword, else 90
StayByName(place) ==
    IF NameHas(Kape, place) THEN 60
    ELSE IF NameHas(Sikdang, place) THEN 90
    ELSE 90

\* the stay as stated: the category is looked up in the table of five
\* (dining, cafe, attraction, theme park, lodging); a category that is none
\* of them, or no category at all, leaves the stay to the name
StatedStay(place) ==
    IF ~HasCategory(place) THEN StayByName(place)
    ELSE IF Occurs(Sikdang, place.type) THEN 90
    ELSE IF Occurs(Kape, place.type) THEN 60
    ELSE IF Occurs(Gwangwangji, place.type) THEN 120
    ELSE IF Occurs(Themepark, place.type) THEN 180
    ELSE IF Occurs(Sukso, place.type) THEN 0
    ELSE StayByName(place)

\* the stay the code gives: the table has a sixth entry, walkway 60, between
\* attraction and theme park, and a record without a category is an
\* attraction
StayByRule(place) ==
    IF ~HasCategory(place) THEN 120
    ELSE IF Occurs(Sikdang, place.type) THEN 90
    ELSE IF Occurs(Kape, place.type) THEN 60
    ELSE IF Occurs(Gwangwangji, place.type) THEN 120
    ELSE IF Occurs(Sanchaekro, place.type) THEN 60
    ELSE IF Occurs(Themepark, place.type) THEN 180
    ELSE IF Occurs(Sukso, place.type) THEN 0
    ELSE StayByName(place)

\* C22 as stated: the stay of every venue record is the table value of its
\* category (dining 90, cafe 60, attraction 120, theme park 180, lodging 0
\* minutes); a category that is not recognized leaves it to the name (cafe
\* keyword 60, dining keyword 90), and it is 90 minutes when nothing matches.
C22_Original ==
    \A i \in 1..Len(places) :
        /\ _estimate_duration(places[i]) = StatedStay(places[i])
        /\ ~timeline.raised =>
              timeline.items[2 * i - 1].duration_minutes = StatedStay(places[i])

\* C22: the stay of every venue record is the value of the first entry of
\* the table of six (dining 90, cafe 60, attraction 120, walkway 60, theme
\* park 180, lodging 0 minutes) that its category names, and 120 minutes for
\* a record without a category; for a category that names no entry the name
\* decides (cafe keyword 60, dining keyword 90), and it is 90 minutes when
\* nothing matches.  The activity of every timeline that plan_day returns
\* lasts that long.
C22_StayTable ==
    \A i \in 1..Len(places) :
        /\ _estimate_duration(places[i]) = StayByRule(places[i])
        /\ ~timeline.raised =>
              /\ timeline.items[2 * i - 1].type = "activity"
              /\ timeline.items[2 * i - 1].duration_minutes = StayByRule(places[i])

\* a venue without a category and with the cafe keyword in its name, whose
\* activity lasts the 120 minutes of an attraction
C22_Witness ==
    /\ Len(places) = 1
    /\ ~HasCategory(places[1])
    /\ HasName(places[1])
    /\ places[1].name = <<"A">> \o Kape
    /\ ~timeline.raised
    /\ timeline.items[1].duration_minutes = 120

----------------------------------------------------------------------------
(* Inputs of the planner *)

MaxItems == 3       \* longest itinerary of venues handed to plan_itinerary_timeline

\* venues as the agent collects them, with the keys they may lack
PlanVenues ==
    { [name |-> v.name, type |-> v.type, day |-> d] : v \in VenuePool, d \in 1..MaxDay }
    \cup { [name |-> <<"D">>, type |-> Sukso],
           [title |-> <<"E">>, day |-> 1],
           [description |-> <<"F">>, type |-> Sanchaekro, day |-> MaxDay] }

VenueItineraries == UNION { [1..n -> PlanVenues] : n \in 0..MaxItems }

\* an item of a timeline with the day line 756 stamps on it, as json.loads
\* gives it back (graph_flow.py line 319)
Reloaded(item, day) ==
    IF item.type = "move"
    THEN [type |-> TypeMove, from |-> item.from, to |-> item.to, start |-> item.start,
          end |-> item.end, duration_min |-> item.duration_min, day |-> day]
    ELSE [type |-> TypeActivity, name |-> item.name, category |-> item.category,
          start |-> item.start, end |-> item.end,
          duration_minutes |-> item.duration_minutes, day |-> day]

\* the items of a timeline as lines 107-117 and 126-134 of
\* smart_scheduler.py shape them: the activities of a venue list from the
\* cursor on, with a move of 20 minutes before every venue but the first
RECURSIVE TimelineItems(_, _, _)
TimelineItems(v, i, cursor) ==
    IF i > Len(v) THEN <<>>
    ELSE LET leg == IF i > 1 THEN 1200 ELSE 0
             stay == _estimate_duration(v[i])
         IN  (IF i > 1 THEN <<MoveItem(v[i - 1], v[i], cursor, leg)>> ELSE <<>>)
             \o <<ActivityItem(v[i], cursor + leg, stay)>>
             \o TimelineItems(v, i + 1, cursor + leg + stay * 60)

\* itineraries that hold a timeline of one day starting at 10:00, moves
\* included, handed to the tool as its argument
FedBackTimelines ==
    { LET tl == TimelineItems(v, 1, Combine(1, <<10, 0>>))
      IN  [i \in 1..Len(tl) |-> Reloaded(tl[i], d)] :
        v \in UNION { VenueLists(d) : d \in 1..MaxDay }, d \in 1..MaxDay }

----------------------------------------------------------------------------
(* The planner as a state machine: one call of the tool *)

InitPlan ==
    /\ default_start_time = <<10, 0>>
    /\ current_time = Combine(1, <<10, 0>>)
    /\ routes = RoutesScenario
    /\ places = <<>>
    /\ timeline = Returned(<<>>)
    /\ opt = OptIdle
    /\ flt = FltIdle
    /\ rte = RteIdle
    /\ geoc = GeocIdle
    /\ plan = PlanIdle
    /\ reg = RegIdle
    /\ sel = SelIdle
    /\ graph = GraphIdle

\* the tool called with venues
PlanVenueItinerary ==
    /\ plan.status = "idle"
    /\ \E itinerary \in VenueItineraries : plan' = plan_itinerary_timeline(itinerary)
    /\ UNCHANGED <<schedVars, opt, flt, rte, geoc, reg, sel, graph>>

\* the tool called with a timeline as the itinerary (graph_flow.py lines 249, 319)
PlanTimelineAgain ==
    /\ plan.status = "idle"
    /\ \E itinerary \in FedBackTimelines : plan' = plan_itinerary_timeline(itinerary)
    /\ UNCHANGED <<schedVars, opt, flt, rte, geoc, reg, sel, graph>>

NextPlan == PlanVenueItinerary \/ PlanTimelineAgain

SpecPlan == InitPlan /\ [][NextPlan]_vars

\* C11: no item of type move is among the places plan_itinerary_timeline
\* hands to the scheduler, so that a timeline given as the itinerary is
\* planned as its activities alone.
C11_MovesDropped ==
    plan.status = "done" =>
        \A i \in 1..Len(plan.day_places) : plan.day_places[i].type # TypeMove

\* C13: a call with at least one venue returns no error but a timeline with
\* an activity for every venue given.
C13_AlwaysAnItinerary ==
    (plan.status = "done" /\ plan.itinerary # <<>>) =>
        /\ ~plan.error
        /\ \A i \in 1..Len(plan.itinerary) :
              Normalised(plan.itinerary[i]).type # TypeMove =>
                  \E j \in 1..Len(plan.timeline_result) :
                      /\ plan.timeline_result[j].type = "activity"
                      /\ plan.timeline_result[j].name = Normalised(plan.itinerary[i]).name

----------------------------------------------------------------------------
(* Inputs of the optimizer *)

OptNames == {"S", "A", "B", "C"}
OptPool == {"A", "B", "C"}
StartLocations == {"", "S", "A"}

Ok(v) == Element("OK", TRUE, v)

\* rows the provider may answer for an origin; the element of a place to
\* itself is an OK of 0 seconds
RowRising == [d \in OptNames |-> Ok(CASE d = "S" -> 1250 [] d = "A" -> 290 [] d = "B" -> 610 [] OTHER -> 900)]
RowFalling == [d \in OptNames |-> Ok(CASE d = "S" -> 100 [] d = "A" -> 900 [] d = "B" -> 610 [] OTHER -> 45)]
RowHoles ==
    [d \in OptNames |->
        CASE d = "A" -> Element("ZERO_RESULTS", FALSE, 0)
          [] d = "B" -> Ok(100)
          [] d = "C" -> Element("OK", FALSE, 0)
          [] OTHER -> Ok(500)]
RowNotFound == [d \in OptNames |-> Element("NOT_FOUND", FALSE, 0)]
RowPatterns == {RowRising, RowFalling, RowHoles, RowNotFound}

ProviderRows ==
    { [o \in OptNames |-> [d \in OptNames |-> IF d = o THEN Ok(0) ELSE f[o][d]]] :
        f \in [OptNames -> RowPatterns] }

\* the rows of a provider that answers every pair with the rising pattern
QuietRows == [o \in OptNames |-> [d \in OptNames |-> IF d = o THEN Ok(0) ELSE RowRising[d]]]

PlaceLists == UNION { [1..n -> OptPool] : n \in 0..MaxOptPlaces }

\* what the geocoder knows: every place, every place but C, or none
GeocodableSets == {OptNames, OptNames \ {"C"}, {}}

----------------------------------------------------------------------------
(* The optimizer as a state machine: one call of the tool *)

InitOpt ==
    /\ default_start_time = <<10, 0>>
    /\ current_time = Combine(1, <<10, 0>>)
    /\ routes = RoutesScenario
    /\ places = <<>>
    /\ timeline = Returned(<<>>)
    /\ opt = OptIdle
    /\ flt = FltIdle
    /\ rte = RteIdle
    /\ geoc = GeocIdle
    /\ plan = PlanIdle
    /\ reg = RegIdle
    /\ sel = SelIdle
    /\ graph = GraphIdle

\* the tool called once.  The provider answers only for the places asked, and
\* for none when there is no client or its request fails; then the rows and
\* the geocoder's knowledge are of no account and stand at QuietRows, OptNames
OptimizeRoutes ==
    /\ opt.status = "idle"
    /\ \E plist \in PlaceLists, start_location \in StartLocations,
          client \in BOOLEAN, raises \in BOOLEAN, rows \in ProviderRows,
          geocodable \in GeocodableSets :
          /\ ~client => ~raises
          /\ \A o \in OptNames :
                (~client \/ raises \/ ~InList(o, AllPlaces(plist, start_location))
                     \/ Len(AllPlaces(plist, start_location)) < 2)
                    => rows[o] = QuietRows[o]
          /\ (~client \/ raises \/ Len(AllPlaces(plist, start_location)) < 2)
                 => geocodable = OptNames
          /\ opt' = optimize_and_get_routes(plist, start_location, client, raises,
                                            rows, geocodable)
    /\ UNCHANGED <<schedVars, flt, rte, geoc, plan, reg, sel, graph>>

NextOpt == OptimizeRoutes

SpecOpt == InitOpt /\ [][NextOpt]_vars

\* a list of nine places along a line, each at its minutes from the first
LongPlaces == <<"P1", "P2", "P3", "P4", "P5", "P6", "P7", "P8", "P9">>
LongNames == {LongPlaces[i] : i \in 1..Len(LongPlaces)}
Position(p) ==
    CASE p = "P1" -> 0 [] p = "P2" -> 10 [] p = "P3" -> 0 - 15 [] p = "P4" -> 30
      [] p = "P5" -> 31 [] p = "P6" -> 32 [] p = "P7" -> 33 [] p = "P8" -> 34
      [] OTHER -> 35
Apart(a, b) == IF Position(a) >= Position(b) THEN Position(a) - Position(b)
               ELSE Position(b) - Position(a)
LongRows == [o \in LongNames |-> [d \in LongNames |-> Ok(60 * Apart(o, d))]]

\* the tool called with the nine places, without a start or with the first
\* of them named as the start
OptimizeLongList ==
    /\ opt.status = "idle"
    /\ \E start_location \in {"", "P1"} :
          opt' = optimize_and_get_routes(LongPlaces, start_location, TRUE, FALSE,
                                         LongRows, LongNames)
    /\ UNCHANGED <<schedVars, flt, rte, geoc, plan, reg, sel, graph>>

NextOptLong == OptimizeRoutes \/ OptimizeLongList

SpecOptLong == InitOpt /\ [][NextOptLong]_vars

\* sum of the matrix over consecutive places of an index list
RECURSIVE TotalOf(_, _)
TotalOf(dm, idx) ==
    IF Len(idx) < 2 THEN 0
    ELSE LET rest == TotalOf(dm, Tail(idx))
             leg == dm[idx[1]][idx[2]]
         IN  IF leg = Inf \/ rest = Inf THEN Inf ELSE leg + rest

\* the index list of the returned order
ReturnedIndices ==
    IF opt.min_duration = Inf THEN [i \in 1..Len(opt.all_places) |-> i]
    ELSE opt.best_order_indices

Identity == [i \in 1..Len(opt.all_places) |-> i]

\* number of positions of s that hold x
Count(x, s) == Cardinality({i \in 1..Len(s) : s[i] = x})

\* C5: with a start location treated as the fixed start, the returned order
\* has it at position 0, with a finite best order and with the fallback alike.
C5_FixedStartFirst ==
    (opt.status = "ok" /\ opt.start_fixed) =>
        /\ opt.optimized_places[1] = opt.start_location
        /\ Tail(opt.optimized_places) # <<>>

\* a fixed start and a finite best order that is not the input order
C5_Witness ==
    /\ opt.status = "ok"
    /\ opt.start_fixed
    /\ opt.min_duration # Inf
    /\ opt.optimized_places # opt.all_places
    /\ opt.optimized_places[1] = "S"

\* C6: the total duration of the order the exact search chooses is at most
\* the total duration of the input order.
C6_NotWorseThanIdentity ==
    opt.status = "ok" =>
        LET chosen == TotalOf(opt.duration_matrix, ReturnedIndices)
            identity == TotalOf(opt.duration_matrix, Identity)
        IN  identity = Inf \/ (chosen # Inf /\ chosen <= identity)

\* the search found an order strictly shorter than a finite input order
C6_Witness ==
    /\ opt.status = "ok"
    /\ Len(opt.all_places) = 4
    /\ TotalOf(opt.duration_matrix, Identity) # Inf
    /\ opt.min_duration # Inf
    /\ opt.min_duration < TotalOf(opt.duration_matrix, Identity)

\* C7: the returned order holds every place of the list it was computed for
\* as often as that list, nothing else, and the total the tool states is the
\* sum of the matrix over the consecutive pairs of the returned order.
C7_PermutationAndTotal ==
    opt.status = "ok" =>
        /\ Len(opt.optimized_places) = Len(opt.all_places)
        /\ \A x \in OptNames : Count(x, opt.optimized_places) = Count(x, opt.all_places)
        /\ opt.all_places = (IF opt.start_fixed THEN <<opt.start_location>> ELSE <<>>) \o opt.places
        /\ opt.min_duration = TotalOf(opt.duration_matrix, ReturnedIndices)
        /\ opt.total_reported =>
               opt.total_minutes = TotalOf(opt.duration_matrix, ReturnedIndices) \div 60

\* a reordered list with a place named twice and a stated total
C7_Witness ==
    /\ opt.status = "ok"
    /\ opt.total_reported
    /\ opt.total_minutes > 0
    /\ opt.optimized_places # opt.all_places
    /\ \E x \in OptNames : Count(x, opt.all_places) = 2

\* C16: the matrix has no hole between places the geocoder knows: the entry
\* of every ordered pair of them is a finite duration, also where the
\* provider gave none for the pair.
C16_NoHole ==
    opt.status = "ok" =>
        \A i, j \in 1..Len(opt.all_places) :
            (opt.all_places[i] \in opt.geocodable /\ opt.all_places[j] \in opt.geocodable)
                => opt.duration_matrix[i][j] # Inf

\* every entry of the matrix between the place at index p and another index
\* is infinite
Isolated(dm, p) ==
    \A j \in (1..Len(dm)) \ {p} : dm[p][j] = Inf /\ dm[j][p] = Inf

\* all orders of the indices in S, as a set
RECURSIVE Orders(_)
Orders(S) ==
    IF S = {} THEN { <<>> }
    ELSE UNION { { <<x>> \o o : o \in Orders(S \ {x}) } : x \in S }

\* the orders the search tries: index 1 first, the others in any order
SearchSpace(n) == { <<1>> \o o : o \in Orders(2..n) }

\* C17: when some place is cut off from all others the call states no total
\* and returns the places in the order it was given them (the start, if it
\* was put in front, first); and when some order of the search space has a
\* finite total, the returned order is one with a finite total.
C17_Infeasible ==
    opt.status = "ok" =>
        /\ (\E p \in 1..Len(opt.all_places) : Isolated(opt.duration_matrix, p)) =>
               /\ opt.optimized_places = opt.all_places
               /\ opt.all_places =
                      (IF opt.start_fixed THEN <<opt.start_location>> ELSE <<>>) \o opt.places
               /\ ~opt.total_reported
        /\ (\E o \in SearchSpace(Len(opt.all_places)) : TotalOf(opt.duration_matrix, o) # Inf) =>
               /\ opt.total_reported
               /\ opt.best_order_indices \in SearchSpace(Len(opt.all_places))
               /\ TotalOf(opt.duration_matrix, opt.best_order_indices) # Inf
               /\ opt.optimized_places =
                      [i \in 1..Len(opt.all_places) |-> opt.all_places[opt.best_order_indices[i]]]

\* four places, the third cut off from the others though the input order of
\* the other three would be finite, returned as given
C17_Witness ==
    /\ opt.status = "ok"
    /\ Len(opt.all_places) = 4
    /\ opt.start_fixed
    /\ Isolated(opt.duration_matrix, 3)
    /\ opt.duration_matrix[1][2] # Inf
    /\ opt.duration_matrix[2][4] # Inf
    /\ opt.optimized_places = opt.all_places
    /\ ~opt.total_reported

\* C18: without a start location the returned order is one of least total
\* among all orders of all places, those that do not begin with the first
\* place of the list included.
C18_AllPermutations ==
    (opt.status = "ok" /\ opt.start_location = "") =>
        \A o \in Orders(1..Len(opt.all_places)) :
            ~Less(TotalOf(opt.duration_matrix, o), opt.min_duration)

\* the places that are not a fixed start
FreePlaces == Len(opt.all_places) - (IF opt.start_fixed THEN 1 ELSE 0)

\* the nearest of the places left, by matrix value from the place `from`;
\* of several equally near the first in list order
Nearest(dm, from, left) ==
    CHOOSE j \in left :
        \A k \in left : ~Less(dm[from][k], dm[from][j]) /\ (dm[from][k] = dm[from][j] => j <= k)

\* the order of the nearest-neighbour walk that has come along path
RECURSIVE NearestNeighbour(_, _, _)
NearestNeighbour(dm, path, left) ==
    IF left = {} THEN path
    ELSE LET j == Nearest(dm, path[Len(path)], left)
         IN  NearestNeighbour(dm, Append(path, j), left \ {j})

\* C14: permutations are run through only when at most 8 places are free, and
\* never more than 8! = 40320 of them; with more than 8 free places the
\* returned order is the nearest-neighbour walk from the first place.
C14_CutoffAndHeuristic ==
    opt.status = "ok" =>
        /\ opt.permutations <= 40320
        /\ opt.permutations > 0 => FreePlaces <= 8
        /\ FreePlaces > 8 =>
               opt.optimized_places =
                   LET walk == NearestNeighbour(opt.duration_matrix, <<1>>,
                                                2..Len(opt.all_places))
                   IN  [i \in 1..Len(walk) |-> opt.all_places[walk[i]]]

----------------------------------------------------------------------------
(* Inputs of the retriever *)

Busan == <<"bu", "san">>
BusanGwangyeoksi == <<"bu", "san", "gwang", "yeok", "si">>
Haeun == <<"hae", "un">>
Haeundae == <<"hae", "un", "dae">>
Haeundaegu == <<"hae", "un", "dae", "gu">>
Gyeonggi == <<"gyeong", "gi">>
Gyeonggido == <<"gyeong", "gi", "do">>
Gapyeong == <<"ga", "pyeong">>
Gapyeonggun == <<"ga", "pyeong", "gun">>

\* fixed_location, split at whitespace; <<>> is no fixed location
FixedLocations ==
    { <<>>, <<Busan>>, <<BusanGwangyeoksi>>, <<Haeun>>, <<Gapyeonggun>>,
      <<Busan, Haeundae>>, <<BusanGwangyeoksi, Haeundaegu>>, <<Busan, Gapyeong>>,
      <<Gyeonggi, Gapyeong>> }

\* the region text of a document, split at whitespace; <<>> is a missing one
Regions ==
    { <<>>, Nan, <<BusanGwangyeoksi, Haeundaegu>>, <<BusanGwangyeoksi>>, <<Busan>>,
      <<Haeundaegu>>, <<Gyeonggido, Gapyeonggun>>, <<Gyeonggido>> }

KValues == {1, 5}

RawDocs == UNION { [1..n -> Regions] : n \in 0..MaxDocs }

----------------------------------------------------------------------------
(* The retriever as a state machine: one call *)

InitFlt ==
    /\ default_start_time = <<10, 0>>
    /\ current_time = Combine(1, <<10, 0>>)
    /\ routes = RoutesScenario
    /\ places = <<>>
    /\ timeline = Returned(<<>>)
    /\ opt = OptIdle
    /\ flt = FltIdle
    /\ rte = RteIdle
    /\ geoc = GeocIdle
    /\ plan = PlanIdle
    /\ reg = RegIdle
    /\ sel = SelIdle
    /\ graph = GraphIdle

GetRelevantDocuments ==
    /\ flt.status = "idle"
    /\ \E fixed_location \in FixedLocations, k \in KValues,
          search_fails \in BOOLEAN, raw_docs \in RawDocs :
          /\ search_fails => raw_docs = <<>>
          /\ flt' = _get_relevant_documents(fixed_location, k, search_fails, raw_docs)
    /\ UNCHANGED <<schedVars, opt, rte, geoc, plan, reg, sel, graph>>

NextFlt == GetRelevantDocuments

SpecFlt == InitFlt /\ [][NextFlt]_vars

\* the parts of a region text as the filter compares them
DocParts(region_str) == [i \in 1..Len(region_str) |-> _normalize_region_part(region_str[i])]

HasRegion(region_str) == region_str # <<>> /\ region_str # Nan

\* C8: with a filter of one token a document with a region text is accepted
\* when some part of its address matches the token (one contains the other),
\* and only then; so the filter Busan accepts "Busan-gwangyeoksi Haeundae-gu".
C8_SingleTokenOr ==
    flt.status = "done" =>
        \A d \in 1..Len(flt.raw_docs) :
            (Len(flt.targets) = 1 /\ HasRegion(flt.raw_docs[d])) =>
                /\ flt.verdicts[d] =
                      (\E i \in 1..Len(flt.raw_docs[d]) :
                          \/ Occurs(flt.targets[1], DocParts(flt.raw_docs[d])[i])
                          \/ Occurs(DocParts(flt.raw_docs[d])[i], flt.targets[1]))
                /\ (flt.fixed_location = <<Busan>>
                        /\ flt.raw_docs[d] = <<BusanGwangyeoksi, Haeundaegu>>) => flt.verdicts[d]

\* the filter Busan has accepted and returned "Busan-gwangyeoksi Haeundae-gu",
\* of which only the first part matches
C8_Witness ==
    /\ flt.status = "done"
    /\ flt.fixed_location = <<Busan>>
    /\ Len(flt.raw_docs) = 2
    /\ flt.raw_docs[2] = <<BusanGwangyeoksi, Haeundaegu>>
    /\ flt.verdicts = <<FALSE, TRUE>>
    /\ flt.filtered_docs = <<2>>

\* C9: with a filter of two or more tokens a document is accepted only if
\* every token occurs in its address text; an address with only one of the
\* tokens is rejected.
C9_MultiTokenAnd ==
    flt.status = "done" =>
        \A d \in 1..Len(flt.raw_docs) :
            Len(flt.targets) >= 2 =>
                /\ flt.verdicts[d] =>
                      /\ HasRegion(flt.raw_docs[d])
                      /\ \A j \in 1..Len(flt.targets) :
                            \E i \in 1..Len(flt.raw_docs[d]) :
                                Occurs(flt.targets[j], DocParts(flt.raw_docs[d])[i])
                /\ (\E j \in 1..Len(flt.targets) :
                        \A i \in 1..Len(flt.raw_docs[d]) :
                            ~Occurs(flt.targets[j], DocParts(flt.raw_docs[d])[i]))
                       => ~flt.verdicts[d]

\* the filter "Busan Haeundae" has rejected an address that is Busan only and
\* accepted one with both
C9_Witness ==
    /\ flt.status = "done"
    /\ flt.fixed_location = <<Busan, Haeundae>>
    /\ flt.raw_docs = << <<BusanGwangyeoksi>>, <<BusanGwangyeoksi, Haeundaegu>> >>
    /\ flt.verdicts = <<FALSE, TRUE>>

----------------------------------------------------------------------------
(* Inputs of the route lookup *)

Seomyeon == <<"seo", "myeon">>
Busanyeok == <<"bu", "san", "yeok">>
RoutePlaces == {Seomyeon, Busanyeok}
Modes == {"transit", "driving", "walking"}
DirectionsOutcomes == {"ok", "empty", "raise"}

\* the first leg of a directions result: 25 minutes, 7.3 km
ProviderLeg == [duration_value |-> 1500, distance_tenths_km |-> 73]

Misses == [k \in 1..(Len(KOREAN_CITIES_AND_PROVINCES) + 1) |-> NoCoord]

\* what the geocoder does for one name: it knows the plain name, it knows the
\* name only with Busan or Gyeonggi in front, it knows nothing, or it fails
GeoBehaviours ==
    { [raises |-> FALSE, answers |-> [Misses EXCEPT ![1] = c]] : c \in {PBusan, PNear, PSeoul, PEquator} }
    \cup { [raises |-> FALSE, answers |-> [Misses EXCEPT ![3] = PBusan, ![10] = PSeoul]],
           [raises |-> FALSE, answers |-> Misses],
           [raises |-> TRUE, answers |-> Misses] }

----------------------------------------------------------------------------
(* The route lookup as a state machine: one call *)

InitRte ==
    /\ default_start_time = <<10, 0>>
    /\ current_time = Combine(1, <<10, 0>>)
    /\ routes = RoutesScenario
    /\ places = <<>>
    /\ timeline = Returned(<<>>)
    /\ opt = OptIdle
    /\ flt = FltIdle
    /\ rte = RteIdle
    /\ geoc = GeocIdle
    /\ plan = PlanIdle
    /\ reg = RegIdle
    /\ sel = SelIdle
    /\ graph = GraphIdle

GetDetailedRoute ==
    /\ rte.status = "idle"
    /\ \E start_place \in RoutePlaces, end_place \in RoutePlaces, mode \in Modes,
          client \in BOOLEAN, directions \in DirectionsOutcomes,
          geo \in [RoutePlaces -> GeoBehaviours] :
          /\ ~client => (directions = "raise" /\ \A q \in RoutePlaces : geo[q].raises)
          /\ rte' = get_detailed_route(start_place, end_place, mode, client,
                                       directions, ProviderLeg, geo)
    /\ UNCHANGED <<schedVars, opt, flt, geoc, plan, reg, sel, graph>>

NextRte == GetDetailedRoute

SpecRte == InitRte /\ [][NextRte]_vars

\* C10: when the directions provider fails and both endpoints geocode, the
\* result is not None and its duration and its distance are greater than 0.
C10_FallbackPositive ==
    (rte.status = "done" /\ rte.fallback /\ rte.start_coords.ok /\ rte.end_coords.ok) =>
        /\ rte.result.found
        /\ rte.result.duration_value > 0
        /\ rte.result.distance_tenths_km > 0

\* C20: when the directions provider fails and an endpoint fails to geocode,
\* the result is None.
C20_NoneWithoutEndpoint ==
    (rte.status = "done" /\ rte.fallback /\ (~rte.start_coords.ok \/ ~rte.end_coords.ok)) =>
        rte.result = RouteNone

\* the directions failed, the start geocoded and the end did not
C20_Witness ==
    /\ rte.status = "done"
    /\ rte.fallback
    /\ rte.start_coords = PBusan
    /\ ~rte.end_coords.ok
    /\ rte.result = RouteNone

----------------------------------------------------------------------------
(* Inputs of the geocoding *)

Seoulyeok == <<"seo", "ul", "yeok">>
Jejugonghang == <<"je", "ju", "gong", "hang">>
GeoPlaces == {Seomyeon, Busanyeok, Seoulyeok, Jejugonghang}

\* the provinces with which the provider may know a name: Seoul, Busan,
\* Gyeonggi and Jeju
KnownWith == {1, 2, 9, 17}

\* the point the provider answers with for the k-th province
PointOf(k) ==
    CASE k = 1 -> PSeoul
      [] k = 2 -> PBusan
      [] k = 9 -> PNear
      [] OTHER -> PEquator

\* the provider knows the plain name or not, and knows it with the
\* provinces of S in front; or it fails
GeoAnswers ==
    { [raises |-> FALSE,
       answers |-> [k \in 1..(Len(KOREAN_CITIES_AND_PROVINCES) + 1) |->
                       IF k = 1 THEN plain
                       ELSE IF (k - 1) \in S THEN PointOf(k - 1) ELSE NoCoord]] :
      plain \in {NoCoord, PBusan}, S \in SUBSET KnownWith }
    \cup { [raises |-> TRUE, answers |-> Misses] }

----------------------------------------------------------------------------
(* The geocoding as a state machine: one call *)

InitGeo ==
    /\ default_start_time = <<10, 0>>
    /\ current_time = Combine(1, <<10, 0>>)
    /\ routes = RoutesScenario
    /\ places = <<>>
    /\ timeline = Returned(<<>>)
    /\ opt = OptIdle
    /\ flt = FltIdle
    /\ rte = RteIdle
    /\ geoc = GeocIdle
    /\ plan = PlanIdle
    /\ reg = RegIdle
    /\ sel = SelIdle
    /\ graph = GraphIdle

GetCoordinates ==
    /\ geoc.status = "idle"
    /\ \E location_name \in GeoPlaces, client \in BOOLEAN, geo \in GeoAnswers :
          /\ ~client => geo.raises
          /\ geoc' = [status |-> "done", location_name |-> location_name,
                      client |-> client, geo |-> geo,
                      calls |-> GeocodeCalls(location_name, client, geo),
                      result |-> get_coordinates(location_name, client, geo)]
    /\ UNCHANGED <<schedVars, opt, flt, rte, plan, reg, sel, graph>>

NextGeo == GetCoordinates

SpecGeo == InitGeo /\ [][NextGeo]_vars

\* the first attempt of the finished call missed
FirstAttemptMissed ==
    /\ geoc.status = "done"
    /\ geoc.client
    /\ ~geoc.geo.raises
    /\ ~geoc.geo.answers[1].ok

\* C19: after a first-attempt miss the name is asked again with one province
\* in front at a time, in list order (leaving out only the provinces the name
\* contains); every call but the last missed, so that nothing is asked after
\* the first success, whose coordinates are returned; when every retry
\* missed, every province has been tried and the result is (None, None).
C19_RetryInOrder ==
    FirstAttemptMissed =>
        LET calls == geoc.calls
            last == calls[Len(calls)]
            answer(c) == geoc.geo.answers[c + 1]
        IN  /\ calls[1] = 0
            /\ \A i \in 2..Len(calls) :
                  /\ calls[i] \in 1..Len(KOREAN_CITIES_AND_PROVINCES)
                  /\ calls[i - 1] < calls[i]
            /\ \A k \in 1..Len(KOREAN_CITIES_AND_PROVINCES) :
                  (k < last /\ ~Occurs(KOREAN_CITIES_AND_PROVINCES[k], geoc.location_name)) =>
                      \E i \in 2..Len(calls) : calls[i] = k
            /\ \A i \in 1..(Len(calls) - 1) : ~answer(calls[i]).ok
            /\ IF answer(last).ok
               THEN geoc.result = answer(last)
               ELSE /\ geoc.result = NoCoord
                    /\ \A k \in 1..Len(KOREAN_CITIES_AND_PROVINCES) :
                          ~Occurs(KOREAN_CITIES_AND_PROVINCES[k], geoc.location_name) =>
                              \E i \in 2..Len(calls) : calls[i] = k

\* the plain name missed, the second retry succeeded and a later province
\* would have succeeded too
C19_Witness ==
    /\ FirstAttemptMissed
    /\ Len(geoc.calls) = 3
    /\ geoc.result = PBusan
    /\ geoc.geo.answers[10].ok

\* the plain name and every retry missed
C19_WitnessExhausted ==
    /\ FirstAttemptMissed
    /\ geoc.location_name = Busanyeok
    /\ Len(geoc.calls) = Len(KOREAN_CITIES_AND_PROVINCES)
    /\ geoc.result = NoCoord

----------------------------------------------------------------------------
(* Inputs of the region resolver *)

MaxWords == 2

\* Busan, the capital-area macro, "Ulsan" in Latin letters, a word that names
\* no region, and a word of one character
QueryWords ==
    { <<"bu", "san">>, <<"su", "do", "gwon">>, <<"U", "l", "s", "a", "n">>,
      <<"mat", "jip">>, <<"je">> }

QuerySeparators == {" ", "-"}

\* the queries of n words, with one separator between two words
RECURSIVE QueriesOf(_)
QueriesOf(n) ==
    IF n = 0 THEN {<<>>}
    ELSE IF n = 1 THEN QueryWords
    ELSE { head \o <<sep>> \o w :
             head \in QueriesOf(n - 1), sep \in QuerySeparators, w \in QueryWords }

Queries == UNION { QueriesOf(n) : n \in 0..MaxWords }

\* what extractOne may answer for a token
FuzzyAnswers ==
    { [cand |-> <<"bu", "san">>, score |-> 85],
      [cand |-> <<"je", "ju">>, score |-> 84],
      [cand |-> <<"seo", "ul">>, score |-> 100] }

\* the default of fuzzy_threshold
FuzzyThresholds == {85}

\* the library answers equal tokens equally
Libraries(tokens) ==
    {NoLibrary} \cup
    { [available |-> TRUE, scores |-> sc] :
        sc \in { f \in [1..Len(tokens) -> FuzzyAnswers] :
                   \A i, j \in 1..Len(tokens) : tokens[i] = tokens[j] => f[i] = f[j] } }

----------------------------------------------------------------------------
(* The region resolver as a state machine: one call *)

InitReg ==
    /\ default_start_time = <<10, 0>>
    /\ current_time = Combine(1, <<10, 0>>)
    /\ routes = RoutesScenario
    /\ places = <<>>
    /\ timeline = Returned(<<>>)
    /\ opt = OptIdle
    /\ flt = FltIdle
    /\ rte = RteIdle
    /\ geoc = GeocIdle
    /\ plan = PlanIdle
    /\ reg = RegIdle
    /\ sel = SelIdle
    /\ graph = GraphIdle

ParseRegionsFromQuery ==
    /\ reg.status = "idle"
    /\ \E query \in Queries, fuzzy \in BOOLEAN, fuzzy_threshold \in FuzzyThresholds :
          \E lib \in Libraries(_tokenize_query(lower(query))) :
             /\ ~fuzzy => lib = NoLibrary
             /\ reg' = parse_regions_from_query(query, fuzzy, fuzzy_threshold, lib)
    /\ UNCHANGED <<schedVars, opt, flt, rte, geoc, plan, sel, graph>>

NextReg == ParseRegionsFromQuery

SpecReg == InitReg /\ [][NextReg]_vars

\* what each tier finds in the query of the finished call, read off the tables
CanonNames == { CANON[i] : i \in 1..Len(CANON) }
ExactMatches == { c \in CanonNames : Occurs(c, reg.query) }
MacroMatches == UNION { m.expands : m \in { n \in MACROS : Occurs(n.macro, reg.query) } }
AliasMatches ==
    LET q == lower(reg.query)
    IN  { CANON[i] : i \in { j \in 1..Len(CANON) : \E a \in ALIASES[j] : Occurs(lower(a), q) } }
FuzzyMatches ==
    IF reg.fuzzy /\ reg.lib.available
    THEN { reg.lib.scores[t].cand :
             t \in { u \in 1..Len(reg.tokens) :
                       Len(reg.tokens[u]) >= 2 /\ ~(reg.lib.scores[u].score < reg.fuzzy_threshold) } }
    ELSE {}

\* C15 as stated: a tier contributes only if all earlier tiers found nothing,
\* so that a query with a canonical name yields the exact matches only.
C15_Original ==
    reg.status = "done" =>
        reg.found =
            IF ExactMatches # {} THEN ExactMatches
            ELSE IF MacroMatches # {} THEN MacroMatches
            ELSE IF AliasMatches # {} THEN AliasMatches
            ELSE FuzzyMatches

\* C15: the tiers are applied in order (exact containment, macro expansion,
\* alias lookup, fuzzy token match) and every tier adds its matches to what
\* the earlier tiers found: the result is the union of the four tiers.
C15_UnionOfTiers ==
    reg.status = "done" =>
        LET exact == ExactMatches
            macro == MacroMatches
            alias == AliasMatches
        IN  /\ reg.after_exact = exact
            /\ reg.after_macros = exact \cup macro
            /\ reg.after_aliases = exact \cup macro \cup alias
            /\ reg.found = exact \cup macro \cup alias \cup FuzzyMatches

\* a query with a canonical name and a macro keyword: the name and the
\* regions of the macro are found
C15_Witness ==
    /\ reg.status = "done"
    /\ ExactMatches = { <<"bu", "san">> }
    /\ MacroMatches # {}
    /\ MacroMatches \subseteq reg.found
    /\ reg.found # ExactMatches

\* the capital-area keyword and the regions it stands for
Sudogwon == <<"su", "do", "gwon">>
CapitalArea == { <<"seo", "ul">>, <<"gyeong", "gi">>, <<"in", "cheon">> }

\* C24: a query that contains the capital-area keyword resolves to a set with
\* all regions of the capital area, so with 3 canonical regions or more; and
\* every region a call returns is in the canonical list.
C24_MacroAndCanon ==
    reg.status = "done" =>
        /\ Occurs(Sudogwon, reg.query) =>
              /\ CapitalArea \subseteq reg.found
              /\ Cardinality(reg.found) >= 3
        /\ \A r \in reg.found : \E i \in 1..Len(CANON) : CANON[i] = r

\* the keyword after a word that names no region, and a fuzzy match besides
C24_Witness ==
    /\ reg.status = "done"
    /\ reg.query = <<"mat", "jip", " ">> \o Sudogwon
    /\ reg.lib.available
    /\ Cardinality(reg.found) = 4

----------------------------------------------------------------------------
(* Inputs of the place selection *)

SelPool == {"A", "B", "C"}

\* the candidates: names of the pool without repetition, in any order
CandidateLists ==
    UNION { { c \in [1..n -> SelPool] : \A i, j \in 1..n : c[i] = c[j] => i = j } :
            n \in 0..Cardinality(SelPool) }

\* an element of the distance matrix: 5 or 10 minutes, or no route
MatrixElements == { [status |-> "OK", value |-> 300], [status |-> "OK", value |-> 600],
                    [status |-> "ZERO_RESULTS", value |-> 0] }

NoMatrix == [raises |-> TRUE, elements |-> <<>>]

\* the answers of the provider for n destinations
Matrices(n) ==
    {NoMatrix} \cup { [raises |-> FALSE, elements |-> e] : e \in [1..n -> MatrixElements] }

----------------------------------------------------------------------------
(* The place selection as a state machine: one call of the tool *)

InitSel ==
    /\ default_start_time = <<10, 0>>
    /\ current_time = Combine(1, <<10, 0>>)
    /\ routes = RoutesScenario
    /\ places = <<>>
    /\ timeline = Returned(<<>>)
    /\ opt = OptIdle
    /\ flt = FltIdle
    /\ rte = RteIdle
    /\ geoc = GeocIdle
    /\ plan = PlanIdle
    /\ reg = RegIdle
    /\ sel = SelIdle
    /\ graph = GraphIdle

FindAndSelectBestPlace ==
    /\ sel.status = "idle"
    /\ \E candidates \in CandidateLists, exclude_places \in SUBSET SelPool, client \in BOOLEAN :
          \E matrix \in Matrices(Len(Remaining(candidates, exclude_places))) :
             /\ ~client => matrix = NoMatrix
             /\ sel' = find_and_select_best_place(candidates, exclude_places, client, matrix)
    /\ UNCHANGED <<schedVars, opt, flt, rte, geoc, plan, reg, graph>>

NextSel == FindAndSelectBestPlace

SpecSel == InitSel /\ [][NextSel]_vars

\* C23: the place find_and_select_best_place returns is never one of
\* exclude_places, whether it is the nearest candidate, the first candidate
\* for want of a route, or the first candidate after a provider error.
C23_ExcludedNeverReturned ==
    (sel.status = "done" /\ sel.result.kind = "place") =>
        /\ sel.result.name \notin sel.exclude_places
        /\ \E i \in 1..Len(sel.candidates) : sel.candidates[i] = sel.result.name

\* the first candidate is excluded and the provider failed: the second
\* candidate is returned
C23_Witness ==
    /\ sel.status = "done"
    /\ Len(sel.candidates) = 3
    /\ sel.exclude_places = { sel.candidates[1] }
    /\ sel.client
    /\ sel.matrix.raises
    /\ sel.result = Place(sel.candidates[2], "error", 0)

----------------------------------------------------------------------------
(* graph_flow.py: the routers and the tool node of the agent graph *)

\* a message of the conversation: a HumanMessage with its text, an AIMessage
\* with the tool calls it asks for, or a ToolMessage with the id of the call
\* it answers
HumanMessage(content) ==
    [kind |-> "human", content |-> content, tool_calls |-> <<>>, tool_call_id |-> 0]
AIMessage(tool_calls) ==
    [kind |-> "ai", content |-> <<>>, tool_calls |-> tool_calls, tool_call_id |-> 0]
ToolMessage(tool_call_id) ==
    [kind |-> "tool", content |-> <<>>, tool_calls |-> <<>>, tool_call_id |-> tool_call_id]

\* a tool call of an AIMessage: the tool, its argument (the query of
\* find_and_select_best_place, the place_name of delete_place) and its id
ToolCall(name, arg, id) == [name |-> name, arg |-> arg, id |-> id]

\* graph_flow.py line 126, in list order: 대신 바꿔 삭제 변경 다른 취소 빼줘
edit_keywords ==
    << <<"dae", "sin">>, <<"ba", "kkwo">>, <<"sak", "je">>, <<"byeon", "gyeong">>,
       <<"da", "reun">>, <<"chwi", "so">>, <<"ppae", "jwo">> >>

\* lines 118-134
entry_router(state) ==
    LET last_message == state.messages[Len(state.messages)]
    IN  IF /\ last_message.kind = "human"
           /\ \E k \in 1..Len(edit_keywords) : Contains(edit_keywords[k], last_message.content)
        THEN "EditorAgent"
        ELSE IF state.dialog_stage = "editing" THEN "EditorAgent"
        ELSE "PlannerAgent"

\* line 151
target_tools == {"plan_itinerary_timeline", "optimize_and_get_routes"}

\* [t['name'] for t in message.tool_calls], as a set
ToolNames(tool_calls) == { tool_calls[i].name : i \in 1..Len(tool_calls) }

\* lines 136-169: the loop guard compares the tool calls of the last message
\* with those of messages[-3], and only when messages[-2] is a ToolMessage and
\* messages[-3] an AIMessage
agent_router(state) ==
    LET messages == state.messages
        n == Len(messages)
        last_message == messages[n]
    IN  IF last_message.tool_calls # <<>>
        THEN IF /\ n >= 3
                /\ messages[n - 1].kind = "tool"
                /\ messages[n - 2].kind = "ai"
                /\ \E tool \in ToolNames(last_message.tool_calls) :
                      /\ tool \in target_tools
                      /\ tool \in ToolNames(messages[n - 2].tool_calls)
             THEN "END"
             ELSE "call_tools"
        ELSE "END"

\* lines 342-357
route_after_tools(state) ==
    IF state.show_pdf_button THEN "END"
    ELSE IF state.messages[Len(state.messages)].kind = "ai" THEN "END"
    ELSE IF state.dialog_stage = "editing" THEN "EditorAgent"
    ELSE "PlannerAgent"

\* str.replace(old, new): every occurrence, from the left, without overlap
RECURSIVE ReplaceAll(_, _, _)
ReplaceAll(t, old, new) ==
    IF Len(t) < Len(old) THEN t
    ELSE IF SubSeq(t, 1, Len(old)) = old
         THEN new \o ReplaceAll(SubSeq(t, Len(old) + 1, Len(t)), old, new)
         ELSE <<t[1]>> \o ReplaceAll(Tail(t), old, new)

Matjip == <<"mat", "jip">>
Eumsikjeom == <<"eum", "sik", "jeom">>
Gita == <<"gi", "ta">>

\* line 188: 식당 요리 레스토랑 반점 회관 고기 뷔페
DiningGroupWords ==
    { Sikdang, <<"yo", "ri">>, <<"re", "seu", "to", "rang">>, <<"ban", "jeom">>,
      <<"hoe", "gwan">>, <<"go", "gi">>, <<"bwi", "pe">> }

\* line 189: 카페 커피 베이커리 디저트 찻집
CafeGroupWords ==
    { Kape, <<"keo", "pi">>, <<"be", "i", "keo", "ri">>, <<"di", "jeo", "teu">>,
      <<"chat", "jip">> }

\* line 190: 관광 명소 여행 공원 박물관 미술관 산책 전시
SightGroupWords ==
    { <<"gwan", "gwang">>, <<"myeong", "so">>, <<"yeo", "haeng">>, <<"gong", "won">>,
      <<"bak", "mul", "gwan">>, <<"mi", "sul", "gwan">>, <<"san", "chaek">>,
      <<"jeon", "si">> }

\* x.get('type') as str() shows it: the type, or the letters of None
TypeStr(item) ==
    IF "type" \in DOMAIN item THEN item.type ELSE <<"N", "o", "n", "e">>

\* lines 186-191, of the text str(type_str)
get_category_group(type_str) ==
    LET t == ReplaceAll(ReplaceAll(type_str, Matjip, Sikdang), Eumsikjeom, Sikdang)
    IN  IF \E x \in DiningGroupWords : Contains(x, t) THEN Sikdang
        ELSE IF \E x \in CafeGroupWords : Contains(x, t) THEN Kape
        ELSE IF \E x \in SightGroupWords : Contains(x, t) THEN Gwangwangji
        ELSE Gita

\* lines 193-194
is_same_category(type1, type2) == get_category_group(type1) = get_category_group(type2)

\* lines 197-237: day by day, the first dining place, the cafes, the sights,
\* the others, then the dining places that are left
reorganize_itinerary(items) ==
    LET days == Days(items)
        OfGroup(day_items, group) ==
            LET In(x) == get_category_group(TypeStr(x)) = group
            IN  SelectSeq(day_items, In)
        SortedDay(day) ==
            LET OfDay(x) == DayOf(x) = day
                day_items == SelectSeq(items, OfDay)
                restaurants == OfGroup(day_items, Sikdang)
            IN  (IF restaurants = <<>> THEN <<>> ELSE <<Head(restaurants)>>)
                \o OfGroup(day_items, Kape)
                \o OfGroup(day_items, Gwangwangji)
                \o OfGroup(day_items, Gita)
                \o (IF restaurants = <<>> THEN <<>> ELSE Tail(restaurants))
        RECURSIVE FinalList(_)
        FinalList(d) == IF d > Len(days) THEN <<>> ELSE SortedDay(days[d]) \o FinalList(d + 1)
    IN  FinalList(1)

\* line 332: sorted(new_itinerary, key=lambda x: x.get('day', 1)), a stable
\* sort
SortedByDay(items) ==
    LET days == Days(items)
        RECURSIVE ByDay(_)
        ByDay(d) ==
            IF d > Len(days) THEN <<>>
            ELSE LET OfDay(x) == DayOf(x) = days[d]
                 IN  SelectSeq(items, OfDay) \o ByDay(d + 1)
    IN  ByDay(1)

\* tools.py lines 916-917: the tools call_tools_node can run
AVAILABLE_TOOLS ==
    { "search_attractions_and_reviews", "get_weather_forecast", "optimize_and_get_routes",
      "plan_itinerary_timeline", "select_best_place", "find_and_select_best_place" }

\* tools.py line 831: "(anchor 근처) query 추천 장소"
Description(query) == <<"geun", "cheo">> \o query \o <<"chu", "cheon", "jang", "so">>

\* tools.py lines 827-832: the JSON object find_and_select_best_place
\* returns for the place it selected; a name is one token
FoundItem(result, query) ==
    [name |-> <<result.name>>, transport |-> result.how, duration |-> result.seconds,
     description |-> Description(query)]

\* item_json['day'] = day_to_add
WithDay(item, day) ==
    [key \in DOMAIN item \cup {"day"} |-> IF key = "day" THEN day ELSE item[key]]

\* graph_flow.py line 245: the names of the itinerary
ExcludePlaces(itinerary) ==
    { n \in SelPool : \E i \in 1..Len(itinerary) :
         "name" \in DOMAIN itinerary[i] /\ itinerary[i].name = <<n>> }

\* the result of a call that was not run, lines 240-265
NoItem == [name |-> <<>>]
NotRun == [answered |-> FALSE, tool_name |-> "", id |-> 0, raw |-> "none",
           item |-> NoItem, list |-> <<>>]

\* lines 240-265: the triple call_tool_executor returns for a tool call, all
\* calls seeing the itinerary the node was entered with.  raw is what
\* json.loads will find in raw_output: an object (item), a list, a text that
\* is no JSON, or None when the call of the tool raised (lines 263-264,
\* whatever the tool).  candidates are the names the search of
\* find_and_select_best_place yields, client and matrix the maps client and
\* its answer for the candidates that are left.
call_tool_executor(tool_call, new_itinerary, candidates, raises, client, matrix) ==
    LET answer == [NotRun EXCEPT !.answered = TRUE, !.tool_name = tool_call.name,
                                 !.id = tool_call.id]
    IN  IF tool_call.name \notin AVAILABLE_TOOLS THEN NotRun
        ELSE IF raises THEN answer
        ELSE IF tool_call.name = "find_and_select_best_place"
        THEN LET found == find_and_select_best_place(
                              candidates, ExcludePlaces(new_itinerary), client, matrix).result
             IN  IF found.kind = "place"
                 THEN [answer EXCEPT !.raw = "item", !.item = FoundItem(found, tool_call.arg)]
                 ELSE [answer EXCEPT !.raw = "text"]
        ELSE IF tool_call.name = "plan_itinerary_timeline"
        THEN LET planned == plan_itinerary_timeline(new_itinerary)
             IN  IF planned.error THEN [answer EXCEPT !.raw = "text"]
                 ELSE [answer EXCEPT !.raw = "list", !.list = planned.timeline_result]
        ELSE [answer EXCEPT !.raw = "text"]

\* lines 298-305: the item is appended, with the day of the last item that is
\* no move, unless an item of the itinerary has its name
GeneralAdd(new_itinerary, item_json) ==
    IF \E i \in 1..Len(new_itinerary) : new_itinerary[i].name = item_json.name
    THEN new_itinerary
    ELSE LET NoMove(x) == TypeStr(x) # TypeMove
             current_places == SelectSeq(new_itinerary, NoMove)
             day_to_add == IF current_places = <<>> THEN 1
                           ELSE DayOf(current_places[Len(current_places)])
         IN  Append(new_itinerary, WithDay(item_json, day_to_add))

\* lines 269-323, one result of the loop.  The branches of delete_place,
\* replace_place and confirm_and_download_pdf need a tool message of a tool
\* that AVAILABLE_TOOLS does not hold: they are never entered.
ApplyResult(new_itinerary, res) ==
    IF ~res.answered \/ res.raw = "none" THEN new_itinerary
    ELSE IF res.tool_name = "find_and_select_best_place"
    THEN IF res.raw # "item" THEN new_itinerary
         ELSE LET item_json == res.item
                  last_item == new_itinerary[Len(new_itinerary)]
              IN  IF /\ new_itinerary # <<>>
                     /\ DayOf(item_json) = DayOf(last_item)
                     /\ is_same_category(TypeStr(item_json), TypeStr(last_item))
                     /\ item_json.name # last_item.name
                  THEN Append(SubSeq(new_itinerary, 1, Len(new_itinerary) - 1), item_json)
                  ELSE GeneralAdd(new_itinerary, item_json)
    ELSE IF res.tool_name = "plan_itinerary_timeline"
    THEN IF res.raw = "list" THEN res.list ELSE new_itinerary
    ELSE new_itinerary

\* the loop of lines 269-323 over the results, in the order of the calls
RECURSIVE ApplyResults(_, _, _)
ApplyResults(new_itinerary, results, i) ==
    IF i > Len(results) THEN new_itinerary
    ELSE ApplyResults(ApplyResult(new_itinerary, results[i]), results, i + 1)

\* lines 173-339: the state call_tools_node leaves, with the results of the
\* executors kept for inspection
call_tools_node(state, candidates, raises, client, matrix) ==
    LET tool_calls == state.messages[Len(state.messages)].tool_calls
        results == [i \in 1..Len(tool_calls) |->
                        call_tool_executor(tool_calls[i], state.itinerary, candidates,
                                           raises[i], client, matrix)]
        Answered(res) == res.answered
        answers == SelectSeq(results, Answered)
        tool_outputs == [i \in 1..Len(answers) |-> ToolMessage(answers[i].id)]
        applied == ApplyResults(state.itinerary, results, 1)
        new_itinerary == IF state.dialog_stage = "planning"
                         THEN reorganize_itinerary(applied)
                         ELSE SortedByDay(applied)
    IN  [state EXCEPT !.messages = state.messages \o tool_outputs,
                      !.itinerary = new_itinerary,
                      !.before = state.itinerary,
                      !.calls = tool_calls,
                      !.results = results,
                      !.executed = Append(state.executed,
                                          { answers[i].tool_name : i \in 1..Len(answers) })]

----------------------------------------------------------------------------
(* The agent graph as a state machine: one invocation of the graph *)

\* the agent turns of an invocation
MaxTurns == 2

\* what the user wrote last: a plain request (계획), or one with the edit
\* keyword 삭제
HumanTexts == { <<"gye", "hoek">>, <<"A", "sak", "je">> }

\* the itinerary the session holds: nothing yet, or the place an earlier
\* invocation found for the query 맛집
InitialItineraries ==
    { <<>>,
      << WithDay(FoundItem(find_and_select_best_place(<<"A">>, {}, FALSE, NoMatrix).result,
                           Matjip), 1) >> }

\* the tool calls the model may answer with in a turn; ids are unique in the
\* conversation
ToolCallLists(turn) ==
    LET F(query, k) == ToolCall("find_and_select_best_place", query, 10 * turn + k)
        P(k) == ToolCall("plan_itinerary_timeline", <<>>, 10 * turn + k)
        O(k) == ToolCall("optimize_and_get_routes", <<>>, 10 * turn + k)
        D(k) == ToolCall("delete_place", <<"A">>, 10 * turn + k)
    IN  { <<>>, <<F(Matjip, 1)>>, <<F(Kape, 1)>>, <<P(1)>>, <<O(1)>>, <<D(1)>>,
          <<F(Matjip, 1), P(2)>>, <<P(1), O(2)>>, <<D(1), F(Kape, 2)>> }

\* what the search of a call yields: nothing, one name, or the whole pool
SearchResults == { c \in CandidateLists : Len(c) <= 1 } \cup { <<"A", "B", "C">> }

\* what the maps client answers for n candidates: an exception, no route to
\* any of them, or 5 minutes to one of them and 10 to the others
MatrixAnswers(n) ==
    { NoMatrix, [raises |-> FALSE, elements |-> [i \in 1..n |-> [status |-> "ZERO_RESULTS", value |-> 0]]] }
    \cup { [raises |-> FALSE,
            elements |-> [i \in 1..n |-> [status |-> "OK", value |-> IF i = k THEN 300 ELSE 600]]] :
          k \in 1..n }

InitGraph ==
    /\ default_start_time = <<10, 0>>
    /\ current_time = Combine(1, <<10, 0>>)
    /\ routes = RoutesScenario
    /\ places = <<>>
    /\ timeline = Returned(<<>>)
    /\ opt = OptIdle
    /\ flt = FltIdle
    /\ rte = RteIdle
    /\ geoc = GeocIdle
    /\ plan = PlanIdle
    /\ reg = RegIdle
    /\ sel = SelIdle
    /\ \E content \in HumanTexts, itinerary \in InitialItineraries,
          show_pdf_button \in BOOLEAN, dialog_stage \in {"planning", "editing"} :
          graph = [pc |-> "start", messages |-> <<HumanMessage(content)>>,
                   itinerary |-> itinerary, show_pdf_button |-> show_pdf_button,
                   dialog_stage |-> dialog_stage, agent |-> "", turns |-> 0,
                   before |-> <<>>, calls |-> <<>>, results |-> <<>>, executed |-> <<>>]

\* the conditional entry point, lines 366 on
EntryRouter ==
    /\ graph.pc = "start"
    /\ graph' = [graph EXCEPT !.pc = entry_router(graph)]
    /\ UNCHANGED <<schedVars, opt, flt, rte, geoc, plan, reg, sel>>

\* lines 107-111 and the edge to agent_router: the agent appends the answer
\* of the model
AgentTurn(agent) ==
    /\ graph.pc = agent
    /\ graph.turns < MaxTurns
    /\ \E tool_calls \in ToolCallLists(graph.turns + 1) :
          LET answered == [graph EXCEPT !.messages = Append(graph.messages, AIMessage(tool_calls)),
                                        !.agent = agent,
                                        !.turns = graph.turns + 1]
          IN  graph' = [answered EXCEPT !.pc = agent_router(answered)]
    /\ UNCHANGED <<schedVars, opt, flt, rte, geoc, plan, reg, sel>>

PlannerAgentTurn == AgentTurn("PlannerAgent")

EditorAgentTurn == AgentTurn("EditorAgent")

\* call_tools_node and the edge to route_after_tools
CallToolsNode ==
    /\ graph.pc = "call_tools"
    /\ \E candidates \in SearchResults, client \in BOOLEAN,
          raises \in [1..Len(graph.messages[Len(graph.messages)].tool_calls) -> BOOLEAN] :
          \E matrix \in MatrixAnswers(Len(Remaining(candidates, ExcludePlaces(graph.itinerary)))) :
             /\ ~client => matrix = NoMatrix
             /\ LET left == call_tools_node(graph, candidates, raises, client, matrix)
                IN  graph' = [left EXCEPT !.pc = route_after_tools(left)]
    /\ UNCHANGED <<schedVars, opt, flt, rte, geoc, plan, reg, sel>>

NextGraph == EntryRouter \/ PlannerAgentTurn \/ EditorAgentTurn \/ CallToolsNode

SpecGraph == InitGraph /\ [][NextGraph]_vars

----------------------------------------------------------------------------
(* Properties of the agent graph *)

\* the AIMessages of the conversation, in order
AIMessages ==
    LET IsAI(m) == m.kind = "ai"
    IN  SelectSeq(graph.messages, IsAI)

\* an agent has just answered and agent_router has chosen the next node
AfterAgentTurn ==
    /\ graph.pc \notin {"idle", "start"}
    /\ graph.turns = Len(graph.executed) + 1

\* call_tools_node has just run and route_after_tools has chosen the next node
AfterCallTools ==
    /\ graph.pc \notin {"idle", "start"}
    /\ graph.turns >= 1
    /\ graph.turns = Len(graph.executed)

\* C25: plan_itinerary_timeline, and likewise optimize_and_get_routes, is
\* never executed in two agent turns in a row: when the previous AI turn
\* called the tool and the current AI message calls it again, agent_router
\* ends the run, however many tool calls the previous turn held.
C25_NeverTwiceInARow ==
    \A tool \in target_tools :
        /\ \A i \in 1..(Len(graph.executed) - 1) :
              ~(tool \in graph.executed[i] /\ tool \in graph.executed[i + 1])
        /\ ( /\ AfterAgentTurn
             /\ Len(AIMessages) >= 2
             /\ tool \in ToolNames(AIMessages[Len(AIMessages)].tool_calls)
             /\ tool \in ToolNames(AIMessages[Len(AIMessages) - 1].tool_calls) )
           => graph.pc = "END"

\* C26: after call_tools has executed tool calls that EditorAgent issued,
\* control returns to EditorAgent unless the PDF button ends the run, also
\* when EditorAgent was entered through an edit keyword.
C26_BackToEditor ==
    ( /\ AfterCallTools
      /\ graph.agent = "EditorAgent"
      /\ graph.executed[Len(graph.executed)] # {}
      /\ ~graph.show_pdf_button )
    => graph.pc = "EditorAgent"

\* C27: after the tool call delete_place(place_name=A) the itinerary holds no
\* item whose name contains A, a tool message answers the call, and control
\* is with an agent.
C27_DeletePlace ==
    AfterCallTools =>
        \A k \in 1..Len(graph.calls) :
            graph.calls[k].name = "delete_place" =>
                /\ \A i \in 1..Len(graph.itinerary) :
                      ~Occurs(graph.calls[k].arg, graph.itinerary[i].name)
                /\ \E m \in 1..Len(graph.messages) :
                      /\ graph.messages[m].kind = "tool"
                      /\ graph.messages[m].tool_call_id = graph.calls[k].id
                /\ graph.pc \in {"PlannerAgent", "EditorAgent"}

\* the query an item was found for, read back from its description
QueryOf(item) == SubSeq(item.description, 3, Len(item.description) - 4)

\* C28: a place found for another category than the last item of the
\* itinerary (a cafe after a dining place) does not replace it: both are
\* kept and the itinerary grows by one.
C28_OtherCategoryKept ==
    ( /\ AfterCallTools
      /\ graph.before # <<>>
      /\ Len(graph.results) = 1
      /\ graph.results[1].raw = "item" )
    => LET item_json == graph.results[1].item
           last_item == graph.before[Len(graph.before)]
       IN  ( /\ \A i \in 1..Len(graph.before) : graph.before[i].name # item_json.name
             /\ get_category_group(QueryOf(item_json)) # get_category_group(QueryOf(last_item)) )
           => /\ Len(graph.itinerary) = Len(graph.before) + 1
              /\ \E i \in 1..Len(graph.itinerary) : graph.itinerary[i].name = last_item.name
              /\ \E i \in 1..Len(graph.itinerary) : graph.itinerary[i].name = item_json.name

====
